---- MODULE Spec2Model ----
(***************************************************************************)
(* Model of BlogAgentOrchestrator (src/blog_orchestrator.py): the agent    *)
(* invocation shim _run_agent_safely on the instance's ThreadPoolExecutor, *)
(* the seven-stage pipeline create_blog_post, analyze_blog_style,          *)
(* generate_topic_ideas and extract_blog_topics; of the Streamlit          *)
(* application that calls it (src/app.py); and of the Style_Guides sheet   *)
(* of SheetsManager (src/sheets_manager.py).                               *)
(*                                                                         *)
(* Spec       one public call at a time on one orchestrator                *)
(* SpecParse  _parse_topic_ideas called on texts drawn from ParserInputs   *)
(* SpecPool   concurrent callers of _run_agent_safely, parallel_research,  *)
(*            and the destruction of the orchestrator (__del__)            *)
(* SpecApp    one session of the application: manual requests and          *)
(*            auto-pilot runs, create_blog_post taken by what it returns   *)
(* SpecEnv    requests of one process inside temporary_env_var             *)
(* SpecSheets set_current_brand, save_style_guide, get_cached_style_guide  *)
(*            on one SheetsManager                                         *)
(*                                                                         *)
(* Texts are sequences of string tokens: an f-string is the concatenation  *)
(* of its literal pieces and its interpolated texts.                       *)
(***************************************************************************)
EXTENDS Integers, Sequences, FiniteSets, TLC

VARIABLES
    op,                  \* the public method called last ("none" before the first call)
    pc,                  \* the caller's position: the stage whose future it is blocked on
    cached_style_guide,  \* argument of create_blog_post
    status_callback,     \* TRUE iff a status_callback was supplied
    results,             \* the local dict `results` of create_blog_post
    outcome,             \* "none" | "running" | "returned" | "raised"
    returned,            \* the mapping create_blog_post returned
    topics,              \* the list generate_topic_ideas / extract_blog_topics returned
    trace,               \* what the call did so far: callback invocations and pool submissions
    raised,              \* the exceptions raised in this call: stage and str(e)
    pool,                \* tasks held by self._thread_pool (queued or running)
    future,              \* the future the caller is blocked on (0: none)
    nextId,              \* id of the next submitted task
    ncalls,              \* number of public calls made on this orchestrator
    existing_topics,     \* argument of generate_topic_ideas
    raw_output,          \* argument of _parse_topic_ideas
    parsed,              \* the lists _parse_topic_ideas returned for raw_output, in call order
    callers,             \* concurrent requests on the orchestrator: each caller's position
    executor,            \* life cycle of self._thread_pool
    autopilot_active,          \* st.session_state.autopilot_active
    autopilot_stop_requested,  \* st.session_state.autopilot_stop_requested
    autopilot_needs_topics,    \* st.session_state.get('autopilot_needs_topics')
    autopilot_total_posts,     \* st.session_state.autopilot_total_posts
    autopilot_completed_posts, \* st.session_state.autopilot_completed_posts
    autopilot_current_topic,   \* st.session_state.autopilot_current_topic
    autopilot_topics_queue,    \* st.session_state.autopilot_topics_queue
    autopilot_results,         \* st.session_state.autopilot_results
    autopilot_errors,          \* st.session_state.autopilot_errors
    autopilot_cached_style,    \* st.session_state.autopilot_cached_style
    generated_topics,          \* st.session_state.generated_topics
    script,              \* where the script thread is: "idle", or in the create_blog_post
                         \* call of an "autopilot" iteration or of a "manual" request
    frame,               \* the locals of that request
    post_calls,          \* the create_blog_post calls of the latest auto-pilot run or
                         \* manual request: arguments and returned mapping
    sheets_manager,      \* TRUE iff a SheetsManager is connected
    st_error,            \* what st.error showed for the latest manual request (None: nothing)
    style_row,           \* Style_Guide_Text of the sheet's row for reference_blog (None: no row)
    sheet_writes,        \* the persistence calls made on the SheetsManager since the
                         \* latest create_blog_post call was made, in order
    environ,             \* os.environ.get("OPENAI_API_KEY")
    env_before,          \* its value before any request entered temporary_env_var
    requests,            \* the requests inside temporary_env_var: position, old_value,
                         \* and the key each of its agent calls read
    current_brand,       \* SheetsManager.current_brand
    Style_Guides,        \* the records of the Style_Guides worksheet, in row order
    last_call            \* the last SheetsManager call and what it returned

\* the state of one request at a time on one orchestrator
vars_request == <<op, pc, cached_style_guide, status_callback, results, outcome,
                  returned, topics, trace, raised, future, ncalls, existing_topics>>

\* the state of the parser calls
vars_parser == <<raw_output, parsed>>

\* the state of concurrent requests and of the orchestrator's life cycle
vars_lifecycle == <<callers, executor>>

\* the state of the orchestrator
vars_orchestrator == <<vars_request, pool, nextId, vars_parser, vars_lifecycle>>

\* the session state of the application and its view of the sheet
vars_app == <<autopilot_active, autopilot_stop_requested, autopilot_needs_topics,
              autopilot_total_posts, autopilot_completed_posts, autopilot_current_topic,
              autopilot_topics_queue, autopilot_results, autopilot_errors,
              autopilot_cached_style, generated_topics, script, frame, post_calls,
              sheets_manager, st_error, style_row, sheet_writes>>

\* the process environment and the requests that set it
vars_env == <<environ, env_before, requests>>

\* the SheetsManager
vars_sheet == <<current_brand, Style_Guides, last_call>>

vars_ui == <<vars_app, vars_env, vars_sheet>>

vars == <<vars_orchestrator, vars_ui>>

----------------------------------------------------------------------------
(* Bounds *)

\* number of public calls made one after the other on one orchestrator
MaxCalls == 1

\* length of the longest existing_topics list tried
MaxExisting == 52

\* number of lines of the longest free-form parser input tried
MaxLines == 3

\* number of times _parse_topic_ideas is called on one text
MaxParses == 2

\* number of threads that call the orchestrator concurrently
NCallers == 2

\* number of agent calls the concurrent requests submit at most, all together
MaxTasks == 5

\* number of research areas one parallel_research call is given at most
MaxAreas == 2

\* topics an auto-pilot run is asked for at most (the slider's maximum,
\* MAX_AUTOPILOT_POSTS in the program)
MaxPosts == 2

\* topics a generate_topic_ideas call returns at most
MaxGenerated == 2

\* requests inside temporary_env_var at the same time
NRequests == 2

\* agent calls of one request
MaxAgentCalls == 2

----------------------------------------------------------------------------
(* Program constants *)

\* ThreadPoolExecutor(max_workers=4)
max_workers == 4

\* default timeout_seconds of _run_agent_safely
DefaultTimeout == 300

\* timeout_seconds passed by generate_topic_ideas
TopicTimeout == 600

\* timeout_seconds passed by extract_blog_topics
ExtractTimeout == 120

\* existing_topics[:50] and the `> 50` of the truncation note
SampleLimit == 50

\* Python's None, kept apart from every text (a text is a sequence of tokens)
None == <<"<None>">>

\* Truthy with the test negated
Truthy_Negated(s) == s = None \/ s = <<>>

\* truthiness of an optional string: None and "" are falsy
Truthy(s) == s # None /\ s # <<>>

\* the agents table built by __init__: key |-> Agent.name
agents ==
    [topic_generator |-> "Topic Idea Generator",
     style_analyzer  |-> "Blog Style Analyzer",
     content_checker |-> "Content Duplication Checker",
     researcher      |-> "Research Specialist",
     writer          |-> "Content Writer",
     internal_linker |-> "Internal Linking Specialist",
     editor          |-> "Content Editor",
     seo_analyzer    |-> "SEO Content Analyzer"]

\* the messages agents fail with (str(e) of the exception raised in the worker)
ErrorMessages == {<<"boom">>}

\* the cached_style_guide arguments tried: absent, empty, a stored guide
CachedInputs == {None, <<>>, <<"CACHED_STYLE">>}

----------------------------------------------------------------------------
(* dict helpers *)

EmptyDict == [k \in {} |-> <<>>]

\* d[k] = v
Put(d, k, v) == [x \in (DOMAIN d) \cup {k} |-> IF x = k THEN v ELSE d[x]]

\* d.get(k, default)
Get(d, k, default) == IF k \in DOMAIN d THEN d[k] ELSE default

----------------------------------------------------------------------------
(* Prompts and agent replies *)

\* a rendered prompt: the template's name and the stage texts interpolated into it
Prompt(name, embeds) == [name |-> name, embeds |-> embeds]

style_prompt == Prompt("style_prompt", <<>>)

research_prompt == Prompt("research_prompt", <<>>)

writing_prompt(style_guide, research) ==
    Prompt("writing_prompt", <<style_guide, research>>)

initial_seo_prompt(draft) == Prompt("initial_seo_prompt", <<draft>>)

\* linking_prompt without the stored SEO recommendations
linking_prompt_DropsAdvice(draft, res) ==
    Prompt("linking_prompt", <<draft, <<"No SEO recommendations available">>>>)

linking_prompt(draft, res) ==
    Prompt("linking_prompt",
           <<draft, Get(res, "initial_seo_analysis", <<"No SEO recommendations available">>)>>)

editing_prompt(res, with_links) ==
    Prompt("editing_prompt",
           <<res["style_guide"], with_links,
             Get(res, "initial_seo_analysis", <<"No SEO recommendations available">>)>>)

final_seo_prompt(final, res) ==
    Prompt("final_seo_prompt",
           <<final, Get(res, "initial_seo_analysis",
                        <<"No initial SEO recommendations were available">>)>>)

\* the i-th title of an existing_topics list (a title is one token)
Title(i) == "Post " \o ToString(i)

\* the existing_topics arguments tried: absent, and lists of lengths around
\* the sample limit
ExistingInputs ==
    {None} \cup {[i \in 1..n |-> Title(i)] :
                    n \in {0, 1, 2, SampleLimit - 1, SampleLimit, SampleLimit + 1,
                           MaxExisting}}

\* chr(10).join(f"- {title}" for title in topics_sample)
RECURSIVE BulletLines(_)
BulletLines(titles) ==
    IF titles = <<>> THEN <<>>
    ELSE IF Len(titles) = 1 THEN <<"- ", Head(titles)>>
    ELSE <<"- ", Head(titles), "\n">> \o BulletLines(Tail(titles))

\* duplication_context with the truncation note written from 50 titles on
duplication_context_NoteAtLimit(existing) ==
    IF Truthy(existing) /\ Len(existing) > 0
    THEN <<"EXISTING BLOG POSTS TO AVOID DUPLICATING:", "\n">>
         \o BulletLines(SubSeq(existing, 1, IF Len(existing) < SampleLimit
                                            THEN Len(existing) ELSE SampleLimit))
         \o <<"\n">>
         \o (IF Len(existing) >= SampleLimit
             THEN <<"(and ", ToString(Len(existing) - SampleLimit), " more...)">>
             ELSE <<>>)
         \o <<"\n", "CRITICAL: Do NOT suggest topics that are too similar">>
    ELSE <<>>

\* duplication_context: empty without existing topics; else the first 50
\* titles, one "- title" line each, and the "(and k more...)" line beyond 50
duplication_context(existing) ==
    IF Truthy(existing) /\ Len(existing) > 0
    THEN <<"EXISTING BLOG POSTS TO AVOID DUPLICATING:", "\n">>
         \o BulletLines(SubSeq(existing, 1, IF Len(existing) < SampleLimit
                                            THEN Len(existing) ELSE SampleLimit))
         \o <<"\n">>
         \o (IF Len(existing) > SampleLimit
             THEN <<"(and ", ToString(Len(existing) - SampleLimit), " more...)">>
             ELSE <<>>)
         \o <<"\n", "CRITICAL: Do NOT suggest topics that are too similar">>
    ELSE <<>>

topic_prompt(existing) == Prompt("topic_prompt", <<duplication_context(existing)>>)

\* a reply of the topic generator in the format its prompt asks for (two blocks)
TopicReply ==
    <<"#", "#", " ", "1.", " ", "Title A", "\n",
      "-", " ", "**Angle**:", " ", "angle A", "\n",
      "-", " ", "**Keywords**:", " ", "kw1", ",", " ", "kw2", "\n",
      "-", " ", "**Rationale**:", " ", "why A", "\n",
      "-", " ", "**Content Type**:", " ", "Guide", "\n",
      "\n",
      "#", "#", " ", "2.", " ", "Title B", "\n",
      "-", " ", "**Angle**:", " ", "angle B", "\n",
      "-", " ", "**Keywords**:", " ", "kw3", "\n",
      "-", " ", "**Rationale**:", " ", "why B", "\n",
      "-", " ", "**Content Type**:", " ", "Listicle">>

\* result.final_output of a successful run of a prompt (one fixed reply per template)
StubReply ==
    [topic_prompt       |-> TopicReply,
     style_prompt       |-> <<"STYLE_OK">>,
     research_prompt    |-> <<"RESEARCH_OK">>,
     writing_prompt     |-> <<"DRAFT_OK">>,
     initial_seo_prompt |-> <<"SEO_ADVICE_OK">>,
     linking_prompt     |-> <<"LINKS_OK">>,
     editing_prompt     |-> <<"FINAL_OK">>,
     final_seo_prompt   |-> <<"SEO_SCORE_OK">>]

final_output(prompt) == StubReply[prompt.name]

\* what result.final_output can be: the reply, and for the topic generator
\* also None (a run that ended without text output)
final_outputs(prompt) ==
    IF prompt.name = "topic_prompt" THEN {final_output(prompt), None}
    ELSE {final_output(prompt)}

----------------------------------------------------------------------------
(* _parse_topic_ideas *)

\* the whitespace tokens str.strip() removes (a line holds no "\n")
Whitespace == {" "}

\* the tokens \d+\. matches
NumberDots == {"1.", "2.", "3.", "4.", "5."}

RECURSIVE lstrip(_)
lstrip(s) == IF s # <<>> /\ Head(s) \in Whitespace THEN lstrip(Tail(s)) ELSE s

RECURSIVE rstrip(_)
rstrip(s) ==
    IF s # <<>> /\ s[Len(s)] \in Whitespace THEN rstrip(SubSeq(s, 1, Len(s) - 1)) ELSE s

\* str.strip()
strip(s) == rstrip(lstrip(s))

\* str.split(sep): the pieces between the separators, at least one piece
RECURSIVE split(_, _)
split(s, sep) ==
    IF \E i \in DOMAIN s : s[i] = sep
    THEN LET i == CHOOSE k \in DOMAIN s : s[k] = sep /\ \A j \in 1..(k - 1) : s[j] # sep
         IN <<SubSeq(s, 1, i - 1)>> \o split(SubSeq(s, i + 1, Len(s)), sep)
    ELSE <<s>>

\* str.startswith(prefix)
startswith(s, prefix) == Len(prefix) <= Len(s) /\ SubSeq(s, 1, Len(prefix)) = prefix

\* re.match(r'^#{0,2}\s*\d+\.\s*(.+)$', line): matched, and group(1)
title_match(line) ==
    LET hashes == IF startswith(line, <<"#", "#">>) THEN 2
                  ELSE IF startswith(line, <<"#">>) THEN 1 ELSE 0
        rest1  == lstrip(SubSeq(line, hashes + 1, Len(line)))
        rest2  == IF rest1 # <<>> THEN lstrip(Tail(rest1)) ELSE <<>>
    IN IF rest1 # <<>> /\ Head(rest1) \in NumberDots /\ rest2 # <<>>
       THEN [matched |-> TRUE, group1 |-> rest2]
       ELSE [matched |-> FALSE, group1 |-> <<>>]

\* line.startswith('- **Label**:') or line.startswith('**Label**:')
HasLabel(line, label) ==
    startswith(line, <<"-", " ", label>>) \/ startswith(line, <<label>>)

\* line.split(':', 1)[1].strip() of a labelled line: the label ends at the first colon
AfterColon(line, label) ==
    strip(IF startswith(line, <<label>>) THEN Tail(line) ELSE SubSeq(line, 4, Len(line)))

\* [kw.strip() for kw in keywords_str.split(',')]
Keywords(keywords_str) ==
    [i \in DOMAIN split(keywords_str, ",") |-> strip(split(keywords_str, ",")[i])]

\* current_topic = None
NoTopic ==
    [set |-> FALSE, title |-> <<>>, angle |-> <<>>, keywords |-> <<>>,
     rationale |-> <<>>, content_type |-> <<>>]

\* the dict a heading line starts
NewTopic(title) ==
    [set |-> TRUE, title |-> title, angle |-> <<>>, keywords |-> <<>>,
     rationale |-> <<>>, content_type |-> <<>>]

\* the if/elif chain that fills the fields of current_topic
ExtractField(cur, line) ==
    IF HasLabel(line, "**Angle**:")
    THEN [cur EXCEPT !.angle = AfterColon(line, "**Angle**:")]
    ELSE IF HasLabel(line, "**Keywords**:")
    THEN [cur EXCEPT !.keywords = Keywords(AfterColon(line, "**Keywords**:"))]
    ELSE IF HasLabel(line, "**Rationale**:")
    THEN [cur EXCEPT !.rationale = AfterColon(line, "**Rationale**:")]
    ELSE IF HasLabel(line, "**Content Type**:")
    THEN [cur EXCEPT !.content_type = AfterColon(line, "**Content Type**:")]
    ELSE cur

\* SaveTopic written as `topics = [current_topic]`: the list is overwritten
SaveTopic_Overwrites(tps, cur) == IF cur.set /\ cur.title # <<>> THEN <<cur>> ELSE tps

\* `if current_topic and current_topic.get('title'): topics.append(current_topic)`
SaveTopic(tps, cur) == IF cur.set /\ cur.title # <<>> THEN Append(tps, cur) ELSE tps

\* ParseLines with current_topic starting as an empty dict that a heading only
\* retitles, and without the `if not current_topic: continue` guard
RECURSIVE ParseLines_NoGuard(_, _, _)
ParseLines_NoGuard(lines, tps, cur) ==
    IF lines = <<>> THEN SaveTopic(tps, cur)
    ELSE LET line == strip(Head(lines))
             m == title_match(line)
         IN IF m.matched
            THEN ParseLines_NoGuard(Tail(lines), SaveTopic(tps, cur),
                                    IF cur.set THEN NewTopic(strip(m.group1))
                                    ELSE [cur EXCEPT !.set = TRUE,
                                                     !.title = strip(m.group1)])
            ELSE ParseLines_NoGuard(Tail(lines), tps, ExtractField(cur, line))

\* the loop over the lines, then the save of the last topic
RECURSIVE ParseLines(_, _, _)
ParseLines(lines, tps, cur) ==
    IF lines = <<>> THEN SaveTopic(tps, cur)
    ELSE LET line == strip(Head(lines))
             m == title_match(line)
         IN IF m.matched
            THEN ParseLines(Tail(lines), SaveTopic(tps, cur), NewTopic(strip(m.group1)))
            ELSE IF ~cur.set
                 THEN ParseLines(Tail(lines), tps, cur)
                 ELSE ParseLines(Tail(lines), tps, ExtractField(cur, line))

parse_topic_ideas(raw) == ParseLines(split(raw, "\n"), <<>>, NoTopic)

\* raw_output.split raises AttributeError when raw_output is None
parse_raises(raw) == raw = None

\* str(e) of that AttributeError
AttributeErrorText == <<"'NoneType' object has no attribute 'split'">>

----------------------------------------------------------------------------
(* The worker pool and _run_agent_safely *)

Queued == {t \in pool : t.st = "queued"}

Running == {t \in pool : t.st = "running"}

\* self._thread_pool.submit(run_in_thread): the task joins the executor's work queue;
\* call is the number of the public call that submits it
submit(p, call, agentKey, prompt, timeout_seconds) ==
    p \cup {[id |-> nextId, call |-> call, agent |-> agents[agentKey],
             prompt |-> prompt, timeout |-> timeout_seconds, st |-> "queued",
             data |-> [success |-> FALSE, text |-> <<>>]]}

\* message of the TimeoutError raised by _run_agent_safely
TimeoutMessage(name, timeout_seconds) ==
    <<"Agent '", name, "' execution timed out after ",
      ToString(timeout_seconds), " seconds">>

\* AwaitFuture of the one caller, with the worker's exception dropped: the caller gets an empty result
Await_Swallows ==
    LET t == CHOOSE x \in pool : x.id = future IN
    IF t.st = "done"
    THEN {[kind |-> "ok",
           text |-> IF t.data.success THEN t.data.text ELSE <<>>, pool |-> pool \ {t}]}
    ELSE {[kind |-> "timeout", text |-> TimeoutMessage(t.agent, t.timeout),
           pool |-> pool]}

\* what future.result(timeout=...) and the lines after it hand to the caller:
\* the result, the worker's exception re-raised, or a TimeoutError that leaves
\* the task in the pool
AwaitFuture(f) ==
    LET t == CHOOSE x \in pool : x.id = f IN
    IF t.st = "done"
    THEN {[kind |-> IF t.data.success THEN "ok" ELSE "error",
           text |-> t.data.text, pool |-> pool \ {t}]}
    ELSE {[kind |-> "timeout", text |-> TimeoutMessage(t.agent, t.timeout),
           pool |-> pool]}

\* the same for the one caller of a request at a time
Await == AwaitFuture(future)

\* some caller is blocked in future.result on the task
Awaited(id) == id = future \/ \E c \in DOMAIN callers : callers[c].future = id

\* WorkerStart of an executor that starts a thread for every queued task
WorkerStart_NoCap ==
    /\ UNCHANGED <<existing_topics, vars_parser, vars_ui, vars_lifecycle>>
    /\ Queued # {}
    /\ LET t == CHOOSE x \in Queued : \A y \in Queued : x.id <= y.id
       IN pool' = (pool \ {t}) \cup {[t EXCEPT !.st = "running"]}
    /\ UNCHANGED <<op, pc, cached_style_guide, status_callback, results, outcome,
                   returned, topics, trace, raised, future, nextId, ncalls>>

\* an idle worker thread takes the oldest queued task
WorkerStart ==
    /\ UNCHANGED <<existing_topics, vars_parser, vars_ui, vars_lifecycle>>
    /\ Queued # {}
    /\ Cardinality(Running) < max_workers
    /\ LET t == CHOOSE x \in Queued : \A y \in Queued : x.id <= y.id
       IN pool' = (pool \ {t}) \cup {[t EXCEPT !.st = "running"]}
    /\ UNCHANGED <<op, pc, cached_style_guide, status_callback, results, outcome,
                   returned, topics, trace, raised, future, nextId, ncalls>>

\* run_in_thread returns: Runner.run_sync gave a result or raised
run_in_thread(t, success, e) ==
    /\ UNCHANGED <<existing_topics, vars_parser, vars_ui, vars_lifecycle>>
    /\ t \in Running
    /\ \E out \in final_outputs(t.prompt) :
         pool' = IF Awaited(t.id)
                 THEN (pool \ {t}) \cup
                      {[t EXCEPT !.st = "done",
                                 !.data = [success |-> success,
                                           text |-> IF success THEN out ELSE e]]}
                 ELSE pool \ {t}
    /\ UNCHANGED <<op, pc, cached_style_guide, status_callback, results, outcome,
                   returned, topics, trace, raised, future, nextId, ncalls>>

----------------------------------------------------------------------------
(* Trace events *)

Progress(text, pct) == [ev |-> "progress", pct |-> pct, what |-> text]

Submitted(prompt) == [ev |-> "submit", pct |-> -1, what |-> <<prompt.name>>]

\* Notify guarded by `if status_callback and pct:`, which skips a report of 0%
Notify_SkipsZero(cb, text, pct) == IF cb /\ pct # 0 THEN <<Progress(text, pct)>> ELSE <<>>

\* `if status_callback: status_callback(text, pct)`
Notify(cb, text, pct) == IF cb THEN <<Progress(text, pct)>> ELSE <<>>

----------------------------------------------------------------------------
(* create_blog_post *)

\* the call goes on to its next stage: one _run_agent_safely submission, and
\* the caller blocks on the new future; tr is the trace up to the submission
NextStage(call, p, res, tr, agentKey, prompt, nextpc) ==
    /\ results' = res
    /\ trace' = Append(tr, Submitted(prompt))
    /\ pool' = submit(p, call, agentKey, prompt, DefaultTimeout)
    /\ future' = nextId
    /\ nextId' = nextId + 1
    /\ pc' = nextpc

\* Abort with the handler returning `results` without recording the error
Abort_NoErrorKey(p, stage, e) ==
    /\ raised' = Append(raised, [stage |-> stage, text |-> e])
    /\ trace' = trace \o Notify(status_callback, <<"Error: ">> \o e, 0)
    /\ results' = results
    /\ returned' = results
    /\ outcome' = "returned"
    /\ pc' = "idle"
    /\ pool' = p
    /\ future' = 0
    /\ UNCHANGED <<op, cached_style_guide, status_callback, topics, nextId, ncalls>>

\* `except Exception as e:` of create_blog_post, e being str() of the exception
Abort(p, stage, e) ==
    /\ raised' = Append(raised, [stage |-> stage, text |-> e])
    /\ trace' = trace \o Notify(status_callback, <<"Error: ">> \o e, 0)
    /\ results' = Put(results, "error", e)
    /\ returned' = Put(results, "error", e)
    /\ outcome' = "returned"
    /\ pc' = "idle"
    /\ pool' = p
    /\ future' = 0
    /\ UNCHANGED <<op, cached_style_guide, status_callback, topics, nextId, ncalls>>

\* ResearchStep reporting a checkpoint below the ones already reported
ResearchStep_LowCheckpoint(call, p, style_guide, tr, cb) ==
    NextStage(call, p, Put(EmptyDict, "style_guide", style_guide),
              tr \o Notify(cb, <<"Researching topic...">>, 20),
              "researcher", research_prompt, "research")

\* results["style_guide"] = style_guide, then step 2 up to the research agent call
ResearchStep(call, p, style_guide, tr, cb) ==
    NextStage(call, p, Put(EmptyDict, "style_guide", style_guide),
              tr \o Notify(cb, <<"Researching topic...">>, 45),
              "researcher", research_prompt, "research")

\* create_blog_post is called; it runs up to its first blocking agent call
\* (in analyze_blog_style when no usable cached style guide is given)
create_blog_post(cached, cb) ==
    /\ UNCHANGED <<vars_parser, vars_ui, vars_lifecycle>>
    /\ existing_topics' = None
    /\ outcome # "running"
    /\ ncalls < MaxCalls
    /\ op' = "create_blog_post"
    /\ raised' = <<>>
    /\ ncalls' = ncalls + 1
    /\ cached_style_guide' = cached
    /\ status_callback' = cb
    /\ outcome' = "running"
    /\ returned' = EmptyDict
    /\ topics' = <<>>
    /\ IF Truthy(cached)
       THEN ResearchStep(ncalls + 1, pool, cached,
                         Notify(cb, <<"Using cached style guide...">>, 15), cb)
       ELSE NextStage(ncalls + 1, pool, EmptyDict,
                      Notify(cb, <<"Analyzing blog style...">>, 10)
                      \o Notify(cb, <<"Fetching articles...">>, 15)
                      \o Notify(cb, <<"Analyzing writing patterns...">>, 25),
                      "style_analyzer", style_prompt, "style")

\* analyze_blog_style gets its result, or catches the failure and returns the
\* "Style analysis failed" text; create_blog_post stores it and goes on to research
analyze_blog_style ==
    /\ UNCHANGED <<existing_topics, vars_parser, vars_ui, vars_lifecycle>>
    /\ pc = "style" /\ op = "create_blog_post"
    /\ \E r \in Await :
         LET style_guide == IF r.kind = "ok" THEN r.text
                            ELSE <<"Style analysis failed: ">> \o r.text
         IN /\ ResearchStep(ncalls, r.pool, style_guide, trace, status_callback)
            /\ raised' = IF r.kind = "ok" THEN raised
                         ELSE Append(raised, [stage |-> "style", text |-> r.text])
    /\ UNCHANGED <<op, cached_style_guide, status_callback, outcome, returned,
                   topics, ncalls>>

\* research_stage with the store of the research placed under `if status_callback:`
research_stage_StoresUnderCallback ==
    /\ UNCHANGED <<existing_topics, vars_parser, vars_ui, vars_lifecycle>>
    /\ pc = "research" /\ op = "create_blog_post"
    /\ \E r \in Await :
         IF r.kind = "ok"
         THEN /\ NextStage(ncalls, r.pool,
                           IF status_callback THEN Put(results, "research", r.text)
                           ELSE results,
                           trace \o Notify(status_callback, <<"Writing blog post...">>, 60),
                           "writer",
                           writing_prompt(results["style_guide"], r.text), "draft")
              /\ raised' = raised
              /\ UNCHANGED <<op, cached_style_guide, status_callback, outcome,
                             returned, topics, ncalls>>
         ELSE Abort(r.pool, "research", r.text)

\* research returns: results["research"], then step 4 up to the writer call
research_stage ==
    /\ UNCHANGED <<existing_topics, vars_parser, vars_ui, vars_lifecycle>>
    /\ pc = "research" /\ op = "create_blog_post"
    /\ \E r \in Await :
         IF r.kind = "ok"
         THEN /\ NextStage(ncalls, r.pool, Put(results, "research", r.text),
                           trace \o Notify(status_callback, <<"Writing blog post...">>, 60),
                           "writer",
                           writing_prompt(results["style_guide"], r.text), "draft")
              /\ raised' = raised
              /\ UNCHANGED <<op, cached_style_guide, status_callback, outcome,
                             returned, topics, ncalls>>
         ELSE Abort(r.pool, "research", r.text)

\* the writer returns: results["draft"], then step 5 up to the first seo_analyzer call
draft_stage ==
    /\ UNCHANGED <<existing_topics, vars_parser, vars_ui, vars_lifecycle>>
    /\ pc = "draft" /\ op = "create_blog_post"
    /\ \E r \in Await :
         IF r.kind = "ok"
         THEN /\ NextStage(ncalls, r.pool, Put(results, "draft", r.text),
                           trace \o Notify(status_callback,
                                           <<"Analyzing draft for SEO optimization...">>, 65),
                           "seo_analyzer", initial_seo_prompt(r.text), "seo_advisory")
              /\ raised' = raised
              /\ UNCHANGED <<op, cached_style_guide, status_callback, outcome,
                             returned, topics, ncalls>>
         ELSE Abort(r.pool, "draft", r.text)

\* seo_advisory_stage without the inner try/except: a failure aborts the call
seo_advisory_stage_NoInnerTry ==
    /\ UNCHANGED <<existing_topics, vars_parser, vars_ui, vars_lifecycle>>
    /\ pc = "seo_advisory" /\ op = "create_blog_post"
    /\ \E r \in Await :
         IF r.kind = "ok"
         THEN /\ NextStage(ncalls, r.pool, Put(results, "initial_seo_analysis", r.text),
                           trace \o Notify(status_callback,
                                           <<"Adding strategic internal links...">>, 75),
                           "internal_linker",
                           linking_prompt(results["draft"],
                                          Put(results, "initial_seo_analysis", r.text)),
                           "link")
              /\ raised' = raised
              /\ UNCHANGED <<op, cached_style_guide, status_callback, outcome,
                             returned, topics, ncalls>>
         ELSE Abort(r.pool, "seo_advisory", r.text)

\* the inner try/except around the initial SEO analysis, then step 6 up to the
\* internal_linker call
seo_advisory_stage ==
    /\ UNCHANGED <<existing_topics, vars_parser, vars_ui, vars_lifecycle>>
    /\ pc = "seo_advisory" /\ op = "create_blog_post"
    /\ \E r \in Await :
         LET res == Put(results, "initial_seo_analysis",
                        IF r.kind = "ok" THEN r.text
                        ELSE <<"Initial SEO analysis failed: ">> \o r.text)
         IN /\ NextStage(ncalls, r.pool, res,
                         trace \o Notify(status_callback,
                                         <<"Adding strategic internal links...">>, 75),
                         "internal_linker", linking_prompt(results["draft"], res), "link")
            /\ raised' = IF r.kind = "ok" THEN raised
                         ELSE Append(raised, [stage |-> "seo_advisory", text |-> r.text])
            /\ UNCHANGED <<op, cached_style_guide, status_callback, outcome,
                           returned, topics, ncalls>>

\* the linker returns: results["with_links"], then step 7 up to the editor call
link_stage ==
    /\ UNCHANGED <<existing_topics, vars_parser, vars_ui, vars_lifecycle>>
    /\ pc = "link" /\ op = "create_blog_post"
    /\ \E r \in Await :
         IF r.kind = "ok"
         THEN /\ NextStage(ncalls, r.pool, Put(results, "with_links", r.text),
                           trace \o Notify(status_callback,
                                           <<"Final editing with SEO optimization...">>, 85),
                           "editor", editing_prompt(results, r.text), "final_edit")
              /\ raised' = raised
              /\ UNCHANGED <<op, cached_style_guide, status_callback, outcome,
                             returned, topics, ncalls>>
         ELSE Abort(r.pool, "link", r.text)

\* final_edit_stage storing the linked draft instead of the editor's output
final_edit_stage_StoresLinked ==
    /\ UNCHANGED <<existing_topics, vars_parser, vars_ui, vars_lifecycle>>
    /\ pc = "final_edit" /\ op = "create_blog_post"
    /\ \E r \in Await :
         IF r.kind = "ok"
         THEN /\ NextStage(ncalls, r.pool, Put(results, "final", results["with_links"]),
                           trace \o Notify(status_callback,
                                           <<"Final SEO performance analysis...">>, 95),
                           "seo_analyzer", final_seo_prompt(r.text, results), "final_seo")
              /\ raised' = raised
              /\ UNCHANGED <<op, cached_style_guide, status_callback, outcome,
                             returned, topics, ncalls>>
         ELSE Abort(r.pool, "final_edit", r.text)

\* the editor returns: results["final"], then step 8 up to the second seo_analyzer call
final_edit_stage ==
    /\ UNCHANGED <<existing_topics, vars_parser, vars_ui, vars_lifecycle>>
    /\ pc = "final_edit" /\ op = "create_blog_post"
    /\ \E r \in Await :
         IF r.kind = "ok"
         THEN /\ NextStage(ncalls, r.pool, Put(results, "final", r.text),
                           trace \o Notify(status_callback,
                                           <<"Final SEO performance analysis...">>, 95),
                           "seo_analyzer", final_seo_prompt(r.text, results), "final_seo")
              /\ raised' = raised
              /\ UNCHANGED <<op, cached_style_guide, status_callback, outcome,
                             returned, topics, ncalls>>
         ELSE Abort(r.pool, "final_edit", r.text)

\* the final SEO analysis returns: results["seo_analysis"], the 100% callback,
\* `return results`
final_seo_stage ==
    /\ UNCHANGED <<existing_topics, vars_parser, vars_ui, vars_lifecycle>>
    /\ pc = "final_seo" /\ op = "create_blog_post"
    /\ \E r \in Await :
         IF r.kind = "ok"
         THEN /\ results' = Put(results, "seo_analysis", r.text)
              /\ trace' = trace \o Notify(status_callback,
                                          <<"Blog post completed with SEO analysis!">>, 100)
              /\ returned' = Put(results, "seo_analysis", r.text)
              /\ outcome' = "returned"
              /\ pc' = "idle"
              /\ pool' = r.pool
              /\ future' = 0
              /\ raised' = raised
              /\ UNCHANGED <<op, cached_style_guide, status_callback, topics, nextId, ncalls>>
         ELSE Abort(r.pool, "final_seo", r.text)

----------------------------------------------------------------------------
(* generate_topic_ideas and extract_blog_topics *)

\* generate_topic_ideas is called; it runs up to its agent call (600 s ceiling)
generate_topic_ideas(cb, existing) ==
    /\ UNCHANGED <<vars_parser, vars_ui, vars_lifecycle>>
    /\ existing_topics' = existing
    /\ outcome # "running"
    /\ ncalls < MaxCalls
    /\ op' = "generate_topic_ideas"
    /\ ncalls' = ncalls + 1
    /\ cached_style_guide' = None
    /\ status_callback' = cb
    /\ outcome' = "running"
    /\ results' = EmptyDict
    /\ returned' = EmptyDict
    /\ topics' = <<>>
    /\ raised' = <<>>
    /\ trace' = Notify(cb, <<"Analyzing blog and generating topic ideas...">>, 50)
                \o <<Submitted(topic_prompt(existing))>>
    /\ pool' = submit(pool, ncalls + 1, "topic_generator", topic_prompt(existing),
                      TopicTimeout)
    /\ future' = nextId
    /\ nextId' = nextId + 1
    /\ pc' = "topics"

\* generate_topic_ideas with the failed call submitted a second time
topic_ideas_return_Retry ==
    /\ UNCHANGED <<existing_topics, vars_parser, vars_ui, vars_lifecycle>>
    /\ pc = "topics" /\ op = "generate_topic_ideas"
    /\ \E r \in Await :
         IF r.kind = "ok"
         THEN /\ trace' = trace \o Notify(status_callback, <<"Topic ideas generated!">>, 100)
              /\ topics' = IF parse_raises(r.text) THEN <<>> ELSE parse_topic_ideas(r.text)
              /\ raised' = raised
              /\ outcome' = "returned"
              /\ pc' = "idle"
              /\ pool' = r.pool
              /\ future' = 0
              /\ UNCHANGED nextId
         ELSE /\ Len(raised) < 1
              /\ trace' = Append(trace, Submitted(topic_prompt(existing_topics)))
              /\ topics' = <<>>
              /\ raised' = Append(raised, [stage |-> "topics", text |-> r.text])
              /\ outcome' = "running"
              /\ pc' = "topics"
              /\ pool' = submit(r.pool, ncalls, "topic_generator",
                                topic_prompt(existing_topics), TopicTimeout)
              /\ future' = nextId
              /\ nextId' = nextId + 1
    /\ UNCHANGED <<op, cached_style_guide, status_callback, results, returned, ncalls>>

\* the `except Exception` of generate_topic_ideas: the 0% callback, `return []`
TopicsFailed(tr, stage, e) ==
    /\ trace' = tr \o Notify(status_callback, <<"Error: ">> \o e, 0)
    /\ topics' = <<>>
    /\ raised' = Append(raised, [stage |-> stage, text |-> e])

\* the topic generator's call returns: the 100% callback and the parsed topics
\* (the parser raising after the 100% callback), or `except Exception`
topic_ideas_return ==
    /\ UNCHANGED <<existing_topics, vars_parser, vars_ui, vars_lifecycle>>
    /\ pc = "topics" /\ op = "generate_topic_ideas"
    /\ \E r \in Await :
         /\ IF r.kind = "ok"
            THEN LET tr == trace \o Notify(status_callback, <<"Topic ideas generated!">>, 100)
                 IN IF parse_raises(r.text)
                    THEN TopicsFailed(tr, "parse", AttributeErrorText)
                    ELSE /\ trace' = tr
                         /\ topics' = parse_topic_ideas(r.text)
                         /\ raised' = raised
            ELSE TopicsFailed(trace, "topics", r.text)
         /\ pool' = r.pool
    /\ outcome' = "returned"
    /\ pc' = "idle"
    /\ future' = 0
    /\ UNCHANGED <<op, cached_style_guide, status_callback, results, returned,
                   nextId, ncalls>>

\* extract_blog_topics: self.agents["research"] raises KeyError (the table has
\* "researcher"), so `except Exception` returns the empty list before any
\* agent call is submitted
extract_blog_topics ==
    /\ UNCHANGED <<vars_parser, vars_ui, vars_lifecycle>>
    /\ existing_topics' = None
    /\ outcome # "running"
    /\ ncalls < MaxCalls
    /\ "research" \notin DOMAIN agents
    /\ op' = "extract_blog_topics"
    /\ ncalls' = ncalls + 1
    /\ cached_style_guide' = None
    /\ status_callback' = FALSE
    /\ outcome' = "returned"
    /\ results' = EmptyDict
    /\ returned' = EmptyDict
    /\ topics' = <<>>
    /\ raised' = <<>>
    /\ trace' = <<>>
    /\ pc' = "idle"
    /\ UNCHANGED <<pool, future, nextId>>

----------------------------------------------------------------------------
(* Specification *)

(* The state of the application before any button is pressed *)

\* no request of the script thread is in a create_blog_post call
NoFrame == [topic |-> None, cached_style |-> None, cache_hit |-> FALSE, post_num |-> 0]

\* the session state after initialize_autopilot_state, nothing generated yet
SessionStarted ==
    /\ autopilot_active = FALSE
    /\ autopilot_stop_requested = FALSE
    /\ autopilot_needs_topics = FALSE
    /\ autopilot_total_posts = 0
    /\ autopilot_completed_posts = 0
    /\ autopilot_current_topic = None
    /\ autopilot_topics_queue = <<>>
    /\ autopilot_results = <<>>
    /\ autopilot_errors = <<>>
    /\ autopilot_cached_style = None
    /\ generated_topics = <<>>
    /\ script = "idle"
    /\ frame = NoFrame
    /\ post_calls = <<>>
    /\ sheet_writes = <<>>
    /\ st_error = None

Requests == 1..NRequests


\* no request has entered its block yet
EnvIdle ==
    /\ environ = env_before
    /\ requests = [r \in Requests |-> [pc |-> "start", old_value |-> None,
                                       observed |-> <<>>]]

\* current_brand None
NoBrand == ""

\* a new SheetsManager on a spreadsheet whose Style_Guides sheet has no rows
SheetEmpty ==
    /\ current_brand = NoBrand
    /\ Style_Guides = <<>>
    /\ last_call = [fn |-> "none", domain |-> "", text |-> None, saved |-> None,
                    after_save |-> FALSE]

\* the application is left alone: no Sheets connection, the variable unset
AppUnused ==
    /\ SessionStarted
    /\ sheets_manager = FALSE
    /\ style_row = None
    /\ env_before = None
    /\ EnvIdle
    /\ SheetEmpty

----------------------------------------------------------------------------
(* Initial states and specifications of the orchestrator *)

\* the orchestrator after __init__: no call made, the pool empty and open
Constructed ==
    /\ op = "none"
    /\ pc = "idle"
    /\ cached_style_guide = None
    /\ status_callback = FALSE
    /\ results = EmptyDict
    /\ outcome = "none"
    /\ returned = EmptyDict
    /\ topics = <<>>
    /\ trace = <<>>
    /\ raised = <<>>
    /\ pool = {}
    /\ future = 0
    /\ nextId = 1
    /\ ncalls = 0
    /\ existing_topics = None
    /\ parsed = <<>>
    /\ executor = "open"

Init ==
    /\ Constructed
    /\ raw_output = <<>>
    /\ callers = <<>>
    /\ AppUnused

Next ==
    \/ \E cached \in CachedInputs, cb \in BOOLEAN : create_blog_post(cached, cb)
    \/ analyze_blog_style
    \/ research_stage
    \/ draft_stage
    \/ seo_advisory_stage
    \/ link_stage
    \/ final_edit_stage
    \/ final_seo_stage
    \/ \E cb \in BOOLEAN, existing \in ExistingInputs : generate_topic_ideas(cb, existing)
    \/ topic_ideas_return
    \/ extract_blog_topics
    \/ WorkerStart
    \/ \E t \in pool, success \in BOOLEAN, e \in ErrorMessages : run_in_thread(t, success, e)

Spec == Init /\ [][Next]_vars

----------------------------------------------------------------------------
(* _parse_topic_ideas called on its own *)

\* '\n'.join(lines)
RECURSIVE JoinLines(_)
JoinLines(lines) ==
    IF lines = <<>> THEN <<>>
    ELSE IF Len(lines) = 1 THEN Head(lines)
    ELSE Head(lines) \o <<"\n">> \o JoinLines(Tail(lines))

\* the number token of block k
NumberDot(k) == ToString(k) \o "."

\* "kw1, kw2, ..." with n keywords
RECURSIVE KeywordList(_, _)
KeywordList(k, n) ==
    IF n = 1 THEN <<"kw" \o ToString(k)>>
    ELSE KeywordList(k, n - 1) \o <<",", " ", "kw" \o ToString(k) \o ToString(n)>>

\* the lines of topic block k in the format the prompt asks for: h is the
\* heading's prefix, b the bullet before a label, n the number of keywords
Block(k, h, b, n) ==
    << h \o <<NumberDot(k), " ", "Title " \o ToString(k)>>,
       b \o <<"**Angle**:", " ", "angle " \o ToString(k)>>,
       b \o <<"**Keywords**:", " ">> \o KeywordList(k, n),
       b \o <<"**Rationale**:", " ", "why " \o ToString(k)>>,
       b \o <<"**Content Type**:", " ", "Guide">> >>

\* a text of exactly five correctly labelled blocks, with or without blank
\* lines between them
WellFormedText(h, b, n, gap) ==
    LET sep == IF gap THEN << <<>> >> ELSE <<>>
    IN JoinLines(Block(1, h, b, n) \o sep \o Block(2, h, b, n) \o sep
                 \o Block(3, h, b, n) \o sep \o Block(4, h, b, n) \o sep
                 \o Block(5, h, b, n))

\* the heading prefixes the title regex accepts
HeadingPrefixes == {<<"#", "#", " ">>, <<"#", " ">>, <<>>}

\* the bullets the label tests accept
Bullets == {<<"-", " ">>, <<>>}

WellFormedInputs ==
    {WellFormedText(h, b, n, gap) :
        h \in HeadingPrefixes, b \in Bullets, n \in 1..3, gap \in BOOLEAN}

\* lines that are numbered headings
HeadingLines ==
    {<<"#", "#", " ", "1.", " ", "Title A">>, <<"2.", " ", "Title B">>}

\* lines that are no numbered heading: a heading with three hashes, one
\* without number, a bare number, labelled field lines, prose, a blank line
OtherLines ==
    {<<"#", "#", "#", " ", "1.", " ", "Title C">>,
     <<"#", "#", " ", "Title D">>,
     <<"1.">>,
     <<"-", " ", "**Angle**:", " ", "angle X">>,
     <<"**Keywords**:", " ", "kwX", ",", " ", "kwY">>,
     <<"-", " ", "**Rationale**:", " ", "why X">>,
     <<" ", "-", " ", "**Content Type**:", " ", "Listicle", " ">>,
     <<"Here are the ideas">>,
     <<>>}

\* free-form texts of up to MaxLines lines
ShortInputs ==
    {JoinLines(ls) : ls \in UNION {[1..n -> HeadingLines \cup OtherLines] : n \in 0..MaxLines}}

ParserInputs == WellFormedInputs \cup ShortInputs

\* the parser is about to be called on some text
InitParse ==
    /\ Constructed
    /\ raw_output \in ParserInputs
    /\ callers = <<>>
    /\ AppUnused

\* self._parse_topic_ideas(raw_output) is called and returns its list
call_parse_topic_ideas ==
    /\ Len(parsed) < MaxParses
    /\ ~parse_raises(raw_output)
    /\ parsed' = Append(parsed, parse_topic_ideas(raw_output))
    /\ UNCHANGED <<vars_request, pool, nextId, raw_output, vars_lifecycle, vars_ui>>

NextParse == call_parse_topic_ideas

SpecParse == InitParse /\ [][NextParse]_vars

----------------------------------------------------------------------------
(* Concurrent requests on one orchestrator, and its destruction *)

Callers == 1..NCallers

\* the threads that share the orchestrator have made no call yet
InitPool ==
    /\ Constructed
    /\ raw_output = <<>>
    /\ callers = [c \in Callers |-> [pc |-> "start", future |-> 0, stages |-> 0, side |-> 0]]
    /\ AppUnused

\* the caller enters _run_agent_safely: one submit to self._thread_pool, then
\* it blocks in future.result
run_agent_safely(c) ==
    /\ pool' = submit(pool, c, "researcher", research_prompt, DefaultTimeout)
    /\ nextId' = nextId + 1
    /\ callers' = [callers EXCEPT ![c] = [pc |-> "waiting", future |-> nextId,
                                          stages |-> callers[c].stages + 1,
                                          side |-> 0]]

\* a thread starts a request (create_blog_post, generate_topic_ideas) that
\* runs up to its first agent call
request_start(c) ==
    /\ executor = "open"
    /\ callers[c].pc = "start"
    /\ nextId <= MaxTasks
    /\ run_agent_safely(c)
    /\ UNCHANGED <<vars_request, vars_parser, vars_ui, executor>>

\* _run_agent_safely returns or raises in the caller (result, re-raised
\* exception, or timeout with the call left in the pool); the request then
\* makes its next agent call (more) or ends and drops its reference
request_step(c, more) ==
    /\ callers[c].pc = "waiting"
    /\ \E r \in AwaitFuture(callers[c].future) :
         IF more /\ nextId <= MaxTasks
         THEN /\ pool' = submit(r.pool, c, "researcher", research_prompt, DefaultTimeout)
              /\ nextId' = nextId + 1
              /\ callers' = [callers EXCEPT ![c].future = nextId,
                                            ![c].stages = callers[c].stages + 1]
         ELSE /\ pool' = r.pool
              /\ nextId' = nextId
              /\ callers' = [callers EXCEPT ![c].pc = "done", ![c].future = 0]
    /\ UNCHANGED <<vars_request, vars_parser, vars_ui, executor>>

\* parallel_research: its own ThreadPoolExecutor(), one Runner.run_sync per
\* research area submitted to it; nothing goes to self._thread_pool
parallel_research(c, n) ==
    /\ executor = "open"
    /\ callers[c].pc = "start"
    /\ callers' = [callers EXCEPT ![c].pc = "side", ![c].side = n]
    /\ UNCHANGED <<vars_request, vars_parser, vars_ui, pool, nextId, executor>>

\* one Runner.run_sync of parallel_research ends; after the last one the
\* `with` block is left and the call returns
research_returns(c) ==
    /\ callers[c].pc = "side"
    /\ callers' = [callers EXCEPT ![c].side = callers[c].side - 1,
                                  ![c].pc = IF callers[c].side = 1 THEN "done" ELSE "side"]
    /\ UNCHANGED <<vars_request, vars_parser, vars_ui, pool, nextId, executor>>

\* tasks of the pool that have not finished
Unfinished == Queued \cup Running

\* __del__ runs once no thread holds the orchestrator any more (the workers
\* hold the agent and the prompt, not the orchestrator): shutdown(wait=True)
\* is called and blocks
del_shutdown ==
    /\ executor = "open"
    /\ \A c \in DOMAIN callers : callers[c].pc = "done"
    /\ callers # <<>>
    /\ executor' = "shutdown(wait=True)"
    /\ UNCHANGED <<vars_request, vars_parser, vars_ui, pool, nextId, callers>>

\* shutdown returning without waiting for the workers, as shutdown(wait=False) does
del_returns_NoWait ==
    /\ executor = "shutdown(wait=True)"
    /\ executor' = "shut down"
    /\ UNCHANGED <<vars_request, vars_parser, vars_ui, pool, nextId, callers>>

\* shutdown(wait=True) returns: every worker thread has been joined, which
\* takes the work queue to be empty and every running call to have ended
del_returns ==
    /\ executor = "shutdown(wait=True)"
    /\ Unfinished = {}
    /\ executor' = "shut down"
    /\ UNCHANGED <<vars_request, vars_parser, vars_ui, pool, nextId, callers>>

NextPool ==
    \/ \E c \in Callers : request_start(c)
    \/ \E c \in Callers, more \in BOOLEAN : request_step(c, more)
    \/ \E c \in Callers, n \in 1..MaxAreas : parallel_research(c, n)
    \/ \E c \in Callers : research_returns(c)
    \/ WorkerStart
    \/ \E t \in pool, success \in BOOLEAN, e \in ErrorMessages : run_in_thread(t, success, e)
    \/ del_shutdown
    \/ del_returns

SpecPool == InitPool /\ [][NextPool]_vars

----------------------------------------------------------------------------
(* The Streamlit application (src/app.py): manual generation and auto-pilot *)

\* BlogAgentOrchestrator(model=model, brand_config=brand_config) at the call
\* sites of app.py yields an orchestrator. The __init__ of
\* src/blog_orchestrator.py declares `model` only, so with that file the call
\* raises TypeError; the constructor that takes brand_config (the one
\* brand_config.build_brand_context_prompt is written for) is not among the
\* sources, and construction follows the specification: it succeeds.
orchestrator_accepts_brand_config == TRUE

\* str(e) of the TypeError of a constructor without the brand_config parameter
TypeErrorText == <<"__init__() got an unexpected keyword argument 'brand_config'">>

\* get_effective_style_source(brand_config): every brand of BRAND_CONFIGS has
\* a blog_url or a style_source_url
reference_blog == <<"https://blog.sliceproducts.com">>

\* the topic texts typed into the manual form
TopicInputs == {<<>>, <<" ">>, <<"My topic">>}

\* the i-th record of a parsed topic list, as stored in generated_topics
Topic(i) == [title |-> <<Title(i)>>, used |-> FALSE]

\* a list of n topic records as generate_topic_ideas returns it
Topics(n) == [i \in 1..n |-> Topic(i)]

Min(a, b) == IF a <= b THEN a ELSE b

\* the style_guide entries create_blog_post can store for a cached_style_guide
\* argument: the argument itself, the analyzer's reply, or the text
\* analyze_blog_style returns when its agent call fails or times out
style_guides(cached) ==
    IF Truthy(cached) THEN {cached}
    ELSE {StubReply.style_prompt}
         \cup {<<"Style analysis failed: ">> \o e :
                 e \in ErrorMessages
                       \cup {TimeoutMessage(agents.style_analyzer, DefaultTimeout)}}

\* the mappings create_blog_post can return for a cached_style_guide argument,
\* cut down to the keys app.py reads: a complete run has "final", an aborted
\* run has "error"
post_results(cached) ==
    {Put(Put(EmptyDict, "style_guide", s), "final", StubReply.editing_prompt) :
        s \in style_guides(cached)}
    \cup {Put(Put(EmptyDict, "style_guide", s), "error", e) :
            s \in style_guides(cached),
            e \in ErrorMessages \cup {TimeoutMessage(agents.writer, DefaultTimeout)}}

\* one persistence call on the SheetsManager
Write(fn, arg) == [fn |-> fn, arg |-> arg]

\* sheets_manager.get_cached_style_guide(reference_blog): None, or the row's dict
get_cached(row) == IF row = None THEN None ELSE row

\* the unused topics of the session, as get_available_topics_for_autopilot
\* returns them (its Sheets lookup calls get_unused_topic_ideas, which
\* SheetsManager does not define: the AttributeError is caught and printed)
available_topics ==
    SubSeq(SelectSeq(generated_topics, LAMBDA t : ~t.used), 1,
           Min(Len(SelectSeq(generated_topics, LAMBDA t : ~t.used)), MaxPosts))

\* current_topic_dict['used'] = True, seen through the generated_topics list
\* that holds the same dict
MarkUsed(gen, title) ==
    [i \in DOMAIN gen |-> IF gen[i].title = title THEN [gen[i] EXCEPT !.used = TRUE]
                          ELSE gen[i]]

\* the "Generate Topic Ideas" button: the list generate_topic_ideas returned
\* (empty when it failed) replaces generated_topics
generate_topics_button(n) ==
    /\ UNCHANGED <<vars_orchestrator, vars_env, vars_sheet>>
    /\ ~autopilot_active /\ script = "idle"
    /\ orchestrator_accepts_brand_config
    /\ generated_topics' = Topics(n)
    /\ UNCHANGED <<autopilot_active, autopilot_stop_requested, autopilot_needs_topics,
                   autopilot_total_posts, autopilot_completed_posts,
                   autopilot_current_topic, autopilot_topics_queue, autopilot_results,
                   autopilot_errors, autopilot_cached_style, script, frame, post_calls,
                   sheets_manager, st_error, style_row, sheet_writes>>

\* the "Start Auto-Pilot" button (disabled while a run is active)
start_autopilot(num_posts) ==
    /\ UNCHANGED <<vars_orchestrator, vars_env, vars_sheet>>
    /\ ~autopilot_active /\ script = "idle"
    /\ num_posts \in 1..(IF Len(available_topics) > 0
                         THEN Min(Len(available_topics), MaxPosts) ELSE MaxPosts)
    /\ IF Len(available_topics) = 0
       THEN /\ autopilot_needs_topics' = TRUE
            /\ UNCHANGED autopilot_topics_queue
       ELSE /\ autopilot_topics_queue' = SubSeq(available_topics, 1, num_posts)
            /\ UNCHANGED autopilot_needs_topics
    /\ autopilot_active' = TRUE
    /\ autopilot_stop_requested' = FALSE
    /\ autopilot_total_posts' = num_posts
    /\ autopilot_completed_posts' = 0
    /\ autopilot_results' = <<>>
    /\ autopilot_errors' = <<>>
    /\ autopilot_cached_style' = None
    /\ post_calls' = <<>>
    /\ UNCHANGED <<autopilot_current_topic, generated_topics, script, frame,
                   sheets_manager, st_error, style_row, sheet_writes>>

\* the "Stop Auto-Pilot" button (disabled=not autopilot_active): the click sets
\* the flag, whatever the run is doing
stop_button ==
    /\ UNCHANGED <<vars_orchestrator, vars_env, vars_sheet>>
    /\ autopilot_active
    /\ autopilot_stop_requested' = TRUE
    /\ UNCHANGED <<autopilot_active, autopilot_needs_topics, autopilot_total_posts,
                   autopilot_completed_posts, autopilot_current_topic,
                   autopilot_topics_queue, autopilot_results, autopilot_errors,
                   autopilot_cached_style, generated_topics, script, frame, post_calls,
                   sheets_manager, st_error, style_row, sheet_writes>>

\* the fields of the session and of the sheet an auto-pilot iteration that
\* only ends the run leaves alone
RunEnds ==
    /\ autopilot_active' = FALSE
    /\ UNCHANGED <<autopilot_total_posts, autopilot_completed_posts,
                   autopilot_current_topic, autopilot_topics_queue, autopilot_results,
                   autopilot_errors, autopilot_cached_style, generated_topics, script,
                   frame, post_calls, sheets_manager, st_error, style_row, sheet_writes>>

\* the stop branch that also empties the queue
autopilot_stopped_ClearsQueue ==
    /\ UNCHANGED <<vars_orchestrator, vars_env, vars_sheet>>
    /\ autopilot_active /\ script = "idle"
    /\ autopilot_stop_requested
    /\ autopilot_active' = FALSE
    /\ autopilot_stop_requested' = FALSE
    /\ autopilot_topics_queue' = <<>>
    /\ UNCHANGED <<autopilot_needs_topics, autopilot_total_posts,
                   autopilot_completed_posts, autopilot_current_topic,
                   autopilot_results, autopilot_errors, autopilot_cached_style,
                   generated_topics, script, frame, post_calls, sheets_manager, st_error,
                   style_row, sheet_writes>>

\* a script run of an active auto-pilot finds the stop flag set
autopilot_stopped ==
    /\ UNCHANGED <<vars_orchestrator, vars_env, vars_sheet>>
    /\ autopilot_active /\ script = "idle"
    /\ autopilot_stop_requested
    /\ autopilot_stop_requested' = FALSE
    /\ UNCHANGED autopilot_needs_topics
    /\ RunEnds

\* the run has no topics yet: generate_topic_ideas is called and its list
\* (n records, none when it failed) fills the queue, or the run ends
autopilot_generate_topics(n) ==
    /\ UNCHANGED <<vars_orchestrator, vars_env, vars_sheet>>
    /\ autopilot_active /\ script = "idle"
    /\ ~autopilot_stop_requested
    /\ autopilot_needs_topics
    /\ orchestrator_accepts_brand_config
    /\ autopilot_needs_topics' = FALSE
    /\ IF n > 0
       THEN /\ autopilot_topics_queue' = SubSeq(Topics(n), 1, Min(n, autopilot_total_posts))
            /\ generated_topics' = Topics(n)
            /\ UNCHANGED autopilot_active
       ELSE /\ autopilot_active' = FALSE
            /\ UNCHANGED <<autopilot_topics_queue, generated_topics>>
    /\ UNCHANGED <<autopilot_stop_requested, autopilot_total_posts,
                   autopilot_completed_posts, autopilot_current_topic,
                   autopilot_results, autopilot_errors, autopilot_cached_style,
                   script, frame, post_calls, sheets_manager, st_error, style_row, sheet_writes>>

\* every post of the run is done
autopilot_completed ==
    /\ UNCHANGED <<vars_orchestrator, vars_env, vars_sheet>>
    /\ autopilot_active /\ script = "idle"
    /\ ~autopilot_stop_requested
    /\ ~autopilot_needs_topics
    /\ autopilot_completed_posts >= autopilot_total_posts
    /\ UNCHANGED <<autopilot_stop_requested, autopilot_needs_topics>>
    /\ RunEnds

\* the outcome record of a topic that failed with error text e
Failure(title, e) == [topic |-> title, success |-> FALSE, error |-> e, results |-> EmptyDict]

\* the outcome record of a topic whose pipeline returned res without "error"
Success(title, res) == [topic |-> title, success |-> TRUE, error |-> None, results |-> res]

\* the next topic is popped and create_blog_post is called on it, with the
\* session's cached style guide or else the one of the sheet
autopilot_begin_topic ==
    /\ UNCHANGED <<vars_orchestrator, vars_env, vars_sheet>>
    /\ autopilot_active /\ script = "idle"
    /\ ~autopilot_stop_requested
    /\ ~autopilot_needs_topics
    /\ autopilot_completed_posts < autopilot_total_posts
    /\ autopilot_topics_queue # <<>>
    /\ LET current_topic_dict == Head(autopilot_topics_queue)
           topic_title == current_topic_dict.title
           sheets_cached == IF ~Truthy(autopilot_cached_style) /\ sheets_manager
                            THEN get_cached(style_row) ELSE None
           cached_style == IF sheets_cached # None THEN sheets_cached
                           ELSE autopilot_cached_style
       IN /\ autopilot_topics_queue' = Tail(autopilot_topics_queue)
          /\ IF orchestrator_accepts_brand_config
             THEN /\ autopilot_current_topic' = topic_title
                  /\ autopilot_cached_style' = cached_style
                  /\ script' = "autopilot"
                  /\ frame' = [topic |-> topic_title, cached_style |-> cached_style,
                               cache_hit |-> FALSE,
                               post_num |-> autopilot_completed_posts + 1]
                  /\ post_calls' = Append(post_calls,
                                          [topic |-> topic_title,
                                           reference_blog |-> reference_blog,
                                           cached_style_guide |-> cached_style,
                                           results |-> EmptyDict])
                  /\ sheet_writes' = <<>>
                  /\ UNCHANGED <<autopilot_errors, autopilot_results,
                                 autopilot_completed_posts>>
             ELSE /\ autopilot_errors' =
                        Append(autopilot_errors, [topic |-> topic_title,
                                                  error |-> TypeErrorText])
                  /\ autopilot_results' =
                        Append(autopilot_results, Failure(topic_title, TypeErrorText))
                  /\ autopilot_completed_posts' = autopilot_completed_posts + 1
                  /\ UNCHANGED <<autopilot_current_topic, autopilot_cached_style,
                                 script, frame, post_calls, sheet_writes>>
    /\ UNCHANGED <<autopilot_active, autopilot_stop_requested, autopilot_needs_topics,
                   autopilot_total_posts, generated_topics, sheets_manager, st_error, style_row>>

\* the Sheets calls of a successful auto-pilot post (the topic records of a
\* session carry no 'ID', so mark_topic_used is not reached)
autopilot_writes(post_num, title, res) ==
    (IF post_num = 1 /\ "style_guide" \in DOMAIN res
     THEN <<Write("save_style_guide", res["style_guide"])>> ELSE <<>>)
    \o <<Write("save_generated_content", title),
         Write("update_blog_source_stats", reference_blog)>>

\* record_error that leaves the error list as it is
record_error_Drops(errors, title, res) == errors

\* st.session_state.autopilot_errors.append(...) when the mapping has "error"
record_error(errors, title, res) ==
    IF "error" \in DOMAIN res
    THEN Append(errors, [topic |-> title, error |-> res["error"]])
    ELSE errors

\* cache_style that keeps the session's value
cache_style_Never(cached, res) == cached

\* "Cache the style guide for subsequent posts": the session's cached style
\* guide after create_blog_post returned res
cache_style(cached, res) ==
    IF ~Truthy(cached) /\ "style_guide" \in DOMAIN res
    THEN res["style_guide"] ELSE cached

\* autopilot_finish_topic that saves to the sheet whether or not the mapping has "error"
autopilot_finish_topic_SavesAlways(res) ==
    /\ UNCHANGED <<vars_orchestrator, vars_env, vars_sheet>>
    /\ script = "autopilot"
    /\ res \in post_results(frame.cached_style)
    /\ autopilot_cached_style' = cache_style(autopilot_cached_style, res)
    /\ autopilot_errors' = record_error(autopilot_errors, frame.topic, res)
    /\ autopilot_results' = Append(autopilot_results,
                                   IF "error" \in DOMAIN res
                                   THEN Failure(frame.topic, res["error"])
                                   ELSE Success(frame.topic, res))
    /\ generated_topics' = IF "error" \in DOMAIN res THEN generated_topics
                           ELSE MarkUsed(generated_topics, frame.topic)
    /\ sheet_writes' = IF sheets_manager
                       THEN sheet_writes \o autopilot_writes(frame.post_num, frame.topic, res)
                       ELSE sheet_writes
    /\ style_row' = IF sheets_manager /\ frame.post_num = 1
                       /\ "style_guide" \in DOMAIN res
                    THEN res["style_guide"] ELSE style_row
    /\ autopilot_completed_posts' = autopilot_completed_posts + 1
    /\ autopilot_current_topic' = None
    /\ script' = "idle"
    /\ frame' = NoFrame
    /\ post_calls' = [post_calls EXCEPT ![Len(post_calls)].results = res]
    /\ UNCHANGED <<autopilot_active, autopilot_stop_requested, autopilot_needs_topics,
                   autopilot_total_posts, autopilot_topics_queue, sheets_manager, st_error>>

\* create_blog_post returns res to the auto-pilot iteration: the style guide
\* is cached, the outcome recorded, a success saved to the sheet, the counter
\* incremented; st.rerun() then starts the next iteration
autopilot_finish_topic(res) ==
    /\ UNCHANGED <<vars_orchestrator, vars_env, vars_sheet>>
    /\ script = "autopilot"
    /\ res \in post_results(frame.cached_style)
    /\ autopilot_cached_style' = cache_style(autopilot_cached_style, res)
    /\ autopilot_errors' = record_error(autopilot_errors, frame.topic, res)
    /\ autopilot_results' = Append(autopilot_results,
                                   IF "error" \in DOMAIN res
                                   THEN Failure(frame.topic, res["error"])
                                   ELSE Success(frame.topic, res))
    /\ generated_topics' = IF "error" \in DOMAIN res THEN generated_topics
                           ELSE MarkUsed(generated_topics, frame.topic)
    /\ sheet_writes' = IF sheets_manager /\ "error" \notin DOMAIN res
                       THEN sheet_writes \o autopilot_writes(frame.post_num, frame.topic, res)
                       ELSE sheet_writes
    /\ style_row' = IF sheets_manager /\ "error" \notin DOMAIN res
                       /\ frame.post_num = 1 /\ "style_guide" \in DOMAIN res
                    THEN res["style_guide"] ELSE style_row
    /\ autopilot_completed_posts' = autopilot_completed_posts + 1
    /\ autopilot_current_topic' = None
    /\ script' = "idle"
    /\ frame' = NoFrame
    /\ post_calls' = [post_calls EXCEPT ![Len(post_calls)].results = res]
    /\ UNCHANGED <<autopilot_active, autopilot_stop_requested, autopilot_needs_topics,
                   autopilot_total_posts, autopilot_topics_queue, sheets_manager, st_error>>

\* the queue-empty branch that leaves the run active
autopilot_queue_empty_StaysActive ==
    /\ autopilot_active /\ script = "idle"
    /\ ~autopilot_stop_requested
    /\ ~autopilot_needs_topics
    /\ autopilot_completed_posts < autopilot_total_posts
    /\ autopilot_topics_queue = <<>>
    /\ UNCHANGED vars

\* the queue ran out before the counter reached the total
autopilot_queue_empty ==
    /\ UNCHANGED <<vars_orchestrator, vars_env, vars_sheet>>
    /\ autopilot_active /\ script = "idle"
    /\ ~autopilot_stop_requested
    /\ ~autopilot_needs_topics
    /\ autopilot_completed_posts < autopilot_total_posts
    /\ autopilot_topics_queue = <<>>
    /\ UNCHANGED <<autopilot_stop_requested, autopilot_needs_topics>>
    /\ RunEnds

\* the Sheets calls of a successful manual request
manual_writes(cache_hit, topic, res) ==
    (IF ~cache_hit /\ "style_guide" \in DOMAIN res
     THEN <<Write("save_style_guide", res["style_guide"])>> ELSE <<>>)
    \o <<Write("save_generated_content", topic),
         Write("update_blog_source_stats", reference_blog)>>

\* manual_generate without the server-side check of the topic
manual_generate_NoTopicCheck(topic) ==
    /\ UNCHANGED <<vars_orchestrator, vars_env, vars_sheet>>
    /\ ~autopilot_active /\ script = "idle"
    /\ st_error' = IF strip(reference_blog) = <<>>
                   THEN <<"Please enter a reference blog URL for style matching">>
                   ELSE None
    /\ IF strip(reference_blog) = <<>>
          \/ ~orchestrator_accepts_brand_config
       THEN UNCHANGED <<script, frame, post_calls, sheet_writes>>
       ELSE LET cached_style == IF sheets_manager THEN get_cached(style_row) ELSE None
            IN /\ script' = "manual"
               /\ frame' = [topic |-> topic, cached_style |-> cached_style,
                            cache_hit |-> cached_style # None, post_num |-> 0]
               /\ post_calls' = <<[topic |-> topic,
                                   reference_blog |-> reference_blog,
                                   cached_style_guide |-> cached_style,
                                   results |-> EmptyDict]>>
               /\ sheet_writes' = <<>>
    /\ UNCHANGED <<autopilot_active, autopilot_stop_requested, autopilot_needs_topics,
                   autopilot_total_posts, autopilot_completed_posts,
                   autopilot_current_topic, autopilot_topics_queue, autopilot_results,
                   autopilot_errors, autopilot_cached_style, generated_topics,
                   sheets_manager, style_row>>

\* the "Generate Blog Post" button: the form is validated (the texts tried are
\* within the length limits), then create_blog_post is called with the style
\* guide of the sheet, if the sheet has one
manual_generate(topic) ==
    /\ UNCHANGED <<vars_orchestrator, vars_env, vars_sheet>>
    /\ ~autopilot_active /\ script = "idle"
    /\ st_error' = IF strip(topic) = <<>>
                   THEN <<"Please enter a topic for your blog post">>
                   ELSE IF strip(reference_blog) = <<>>
                   THEN <<"Please enter a reference blog URL for style matching">>
                   ELSE None
    /\ IF strip(topic) = <<>> \/ strip(reference_blog) = <<>>
          \/ ~orchestrator_accepts_brand_config
       THEN UNCHANGED <<script, frame, post_calls, sheet_writes>>
       ELSE LET cached_style == IF sheets_manager THEN get_cached(style_row) ELSE None
            IN /\ script' = "manual"
               /\ frame' = [topic |-> topic, cached_style |-> cached_style,
                            cache_hit |-> cached_style # None, post_num |-> 0]
               /\ post_calls' = <<[topic |-> topic,
                                   reference_blog |-> reference_blog,
                                   cached_style_guide |-> cached_style,
                                   results |-> EmptyDict]>>
               /\ sheet_writes' = <<>>
    /\ UNCHANGED <<autopilot_active, autopilot_stop_requested, autopilot_needs_topics,
                   autopilot_total_posts, autopilot_completed_posts,
                   autopilot_current_topic, autopilot_topics_queue, autopilot_results,
                   autopilot_errors, autopilot_cached_style, generated_topics,
                   sheets_manager, style_row>>

\* create_blog_post returns res to the manual request: a mapping without
\* "error" is saved to the sheet
manual_finish(res) ==
    /\ UNCHANGED <<vars_orchestrator, vars_env, vars_sheet>>
    /\ script = "manual"
    /\ res \in post_results(frame.cached_style)
    /\ post_calls' = [post_calls EXCEPT ![Len(post_calls)].results = res]
    /\ sheet_writes' = IF sheets_manager /\ "error" \notin DOMAIN res
                       THEN sheet_writes \o manual_writes(frame.cache_hit, frame.topic, res)
                       ELSE sheet_writes
    /\ style_row' = IF sheets_manager /\ "error" \notin DOMAIN res
                       /\ ~frame.cache_hit /\ "style_guide" \in DOMAIN res
                    THEN res["style_guide"] ELSE style_row
    /\ script' = "idle"
    /\ frame' = NoFrame
    /\ UNCHANGED <<autopilot_active, autopilot_stop_requested, autopilot_needs_topics,
                   autopilot_total_posts, autopilot_completed_posts,
                   autopilot_current_topic, autopilot_topics_queue, autopilot_results,
                   autopilot_errors, autopilot_cached_style, generated_topics,
                   sheets_manager, st_error>>

\* the "Clear Auto-Pilot Results" button, shown under the results of a run
clear_results ==
    /\ UNCHANGED <<vars_orchestrator, vars_env, vars_sheet>>
    /\ ~autopilot_active /\ script = "idle"
    /\ autopilot_results # <<>>
    /\ autopilot_results' = <<>>
    /\ autopilot_errors' = <<>>
    /\ UNCHANGED <<autopilot_active, autopilot_stop_requested, autopilot_needs_topics,
                   autopilot_total_posts, autopilot_completed_posts,
                   autopilot_current_topic, autopilot_topics_queue,
                   autopilot_cached_style, generated_topics, script, frame, post_calls,
                   sheets_manager, st_error, style_row, sheet_writes>>

\* a session opens: Sheets configured or not, the Style_Guides sheet with or
\* without a row for the reference blog
InitApp ==
    /\ Constructed
    /\ raw_output = <<>>
    /\ callers = <<>>
    /\ SessionStarted
    /\ sheets_manager \in BOOLEAN
    /\ style_row \in {None, <<>>, <<"CACHED_STYLE">>}
    /\ env_before = None
    /\ EnvIdle
    /\ SheetEmpty

NextApp ==
    \/ \E n \in 0..MaxGenerated : generate_topics_button(n)
    \/ \E num_posts \in 1..MaxPosts : start_autopilot(num_posts)
    \/ stop_button
    \/ autopilot_stopped
    \/ \E n \in 0..MaxGenerated : autopilot_generate_topics(n)
    \/ autopilot_completed
    \/ autopilot_begin_topic
    \/ \E res \in post_results(frame.cached_style) : autopilot_finish_topic(res)
    \/ autopilot_queue_empty
    \/ \E topic \in TopicInputs : manual_generate(topic)
    \/ \E res \in post_results(frame.cached_style) : manual_finish(res)
    \/ clear_results

\* one auto-pilot iteration: what a script run does while the run is active
autopilot_iteration ==
    \/ autopilot_stopped
    \/ \E n \in 0..MaxGenerated : autopilot_generate_topics(n)
    \/ autopilot_completed
    \/ autopilot_begin_topic
    \/ \E res \in post_results(frame.cached_style) : autopilot_finish_topic(res)
    \/ autopilot_queue_empty

\* st.rerun() starts the next iteration and every call returns
SpecApp == InitApp /\ [][NextApp]_vars /\ WF_vars(autopilot_iteration)

----------------------------------------------------------------------------
(* temporary_env_var("OPENAI_API_KEY", api_key) in requests that share the *)
(* process (each session's script runs in a thread of its own)             *)

\* the api_key of a request (the session's text input)
api_key(r) == <<"KEY_" \o ToString(r)>>

\* the values OPENAI_API_KEY can have when the sessions open: unset, or the
\* key of the .env file
EnvInputs == {None, <<"KEY_ENV">>}

\* old_value = os.environ.get(key)
env_get(r) ==
    /\ requests[r].pc = "start"
    /\ requests' = [requests EXCEPT ![r].pc = "try", ![r].old_value = environ]
    /\ UNCHANGED <<vars_orchestrator, vars_app, vars_sheet, environ, env_before>>

\* os.environ[key] = value; the block is entered
env_set(r) ==
    /\ requests[r].pc = "try"
    /\ environ' = api_key(r)
    /\ requests' = [requests EXCEPT ![r].pc = "block"]
    /\ UNCHANGED <<vars_orchestrator, vars_app, vars_sheet, env_before>>

\* an agent call made inside the block reads OPENAI_API_KEY
agent_call(r) ==
    /\ requests[r].pc = "block"
    /\ Len(requests[r].observed) < MaxAgentCalls
    /\ requests' = [requests EXCEPT ![r].observed = Append(@, environ)]
    /\ UNCHANGED <<vars_orchestrator, vars_app, vars_sheet, environ, env_before>>

\* the finally clause: the variable is removed if it was unset at entry,
\* else set back to old_value
env_exit(r) ==
    /\ requests[r].pc = "block"
    /\ environ' = requests[r].old_value
    /\ requests' = [requests EXCEPT ![r].pc = "exited"]
    /\ UNCHANGED <<vars_orchestrator, vars_app, vars_sheet, env_before>>

InitEnv ==
    /\ Constructed
    /\ raw_output = <<>>
    /\ callers = <<>>
    /\ SessionStarted
    /\ sheets_manager = FALSE
    /\ style_row = None
    /\ env_before \in EnvInputs
    /\ EnvIdle
    /\ SheetEmpty

NextEnv ==
    \/ \E r \in Requests : env_get(r)
    \/ \E r \in Requests : env_set(r)
    \/ \E r \in Requests : agent_call(r)
    \/ \E r \in Requests : env_exit(r)

SpecEnv == InitEnv /\ [][NextEnv]_vars

----------------------------------------------------------------------------
(* SheetsManager (src/sheets_manager.py): the Style_Guides worksheet *)

\* str.lower() on the names tried
lower(s) ==
    CASE s = "A.com" -> "a.com"
      [] s = "Slice" -> "slice"
      [] OTHER -> s

\* the brand_name arguments of set_current_brand ("" stands for None too:
\* both are falsy and both leave current_brand None)
BrandInputs == {"", "Slice", "klever"}

DomainInputs == {"a.com", "A.com"}

GuideInputs == {<<"GUIDE_1">>, <<"GUIDE_2">>}

\* self.current_brand = brand_name.lower() if brand_name else None
set_current_brand(brand_name) ==
    /\ current_brand' = IF brand_name # "" THEN lower(brand_name) ELSE NoBrand
    /\ last_call' = [fn |-> "set_current_brand", domain |-> "", text |-> None,
                     saved |-> None, after_save |-> FALSE]
    /\ UNCHANGED <<vars_orchestrator, vars_app, vars_env, Style_Guides>>

\* the rows a lookup of (domain, brand) matches, brand "" matching any brand
\* when any_brand is set
Matches(records, domain, brand, any_brand) ==
    {i \in DOMAIN records :
        /\ lower(records[i].Domain) = lower(domain)
        /\ (any_brand \/ lower(records[i].Brand) = lower(brand))}

First(S) == CHOOSE i \in S : \A j \in S : i <= j

\* save_style_guide(domain, style_guide): the first row of the domain and of
\* the brand (current_brand or '') is rewritten, or a row is appended
save_style_guide(domain, style_guide) ==
    /\ LET brand_value == current_brand
           existing == Matches(Style_Guides, domain, brand_value, FALSE)
           row_data == [Brand |-> brand_value, Domain |-> domain,
                        Style_Guide_Text |-> style_guide]
       IN Style_Guides' = IF existing # {}
                          THEN [Style_Guides EXCEPT ![First(existing)] = row_data]
                          ELSE Append(Style_Guides, row_data)
    /\ last_call' = [fn |-> "save_style_guide", domain |-> domain,
                     text |-> style_guide, saved |-> None, after_save |-> FALSE]
    /\ UNCHANGED <<vars_orchestrator, vars_app, vars_env, current_brand>>

\* get_cached_style_guide(domain): the first row of the domain that passes
\* the brand filter (no filter when current_brand is None), or None;
\* last_call keeps what it returned as style_guide and, when the call before
\* it was a save_style_guide of the same domain, the text that call saved
get_cached_style_guide(domain) ==
    /\ LET brand_filter == current_brand
           found == Matches(Style_Guides, domain, brand_filter, brand_filter = NoBrand)
       IN last_call' = [fn |-> "get_cached_style_guide", domain |-> domain,
                        text |-> IF found # {}
                                 THEN Style_Guides[First(found)].Style_Guide_Text
                                 ELSE None,
                        saved |-> IF last_call.fn = "save_style_guide"
                                  THEN last_call.text ELSE None,
                        after_save |-> /\ last_call.fn = "save_style_guide"
                                       /\ last_call.domain = domain]
    /\ UNCHANGED <<vars_orchestrator, vars_app, vars_env, current_brand, Style_Guides>>

InitSheets ==
    /\ Constructed
    /\ raw_output = <<>>
    /\ callers = <<>>
    /\ SessionStarted
    /\ sheets_manager = TRUE
    /\ style_row = None
    /\ env_before = None
    /\ EnvIdle
    /\ SheetEmpty

NextSheets ==
    \/ \E b \in BrandInputs : set_current_brand(b)
    \/ \E d \in DomainInputs, g \in GuideInputs : save_style_guide(d, g)
    \/ \E d \in DomainInputs : get_cached_style_guide(d)

SpecSheets == InitSheets /\ [][NextSheets]_vars

----------------------------------------------------------------------------
(* Vocabulary of the properties *)

\* the prompt templates of the seven stages, in pipeline order
StageOrder ==
    <<"style_prompt", "research_prompt", "writing_prompt", "initial_seo_prompt",
      "linking_prompt", "editing_prompt", "final_seo_prompt">>

\* the stage names used in `raised`, in pipeline order
StageNames ==
    <<"style", "research", "draft", "seo_advisory", "link", "final_edit", "final_seo">>

\* the key of `results` each stage writes, in pipeline order
ResultKeys ==
    <<"style_guide", "research", "draft", "initial_seo_analysis", "with_links",
      "final", "seo_analysis">>

StageIndex(stage) == CHOOSE i \in 1..7 : StageNames[i] = stage

IsSubmit(e) == e.ev = "submit"

IsProgress(e) == e.ev = "progress"

\* the prompt templates submitted to the pool by the current call, in order
Submits == [i \in DOMAIN SelectSeq(trace, IsSubmit) |-> SelectSeq(trace, IsSubmit)[i].what[1]]

\* the percentages the status callback received in the current call, in order
Percents == [i \in DOMAIN SelectSeq(trace, IsProgress) |-> SelectSeq(trace, IsProgress)[i].pct]

InPost == op = "create_blog_post"

PostReturned == InPost /\ outcome = "returned"

RaisedStages == {raised[i].stage : i \in DOMAIN raised}

\* tasks of the current call still held by the pool
OwnTasks == {t \in pool : t.call = ncalls}

IsTimeoutText(text) ==
    \E k \in DOMAIN agents :
        text = TimeoutMessage(agents[k], DefaultTimeout)

----------------------------------------------------------------------------
(* C1 *)

\* C1: every call of create_blog_post ends by returning, never by raising, and
\* the mapping it returns has the key "final" or the key "error", whichever
\* stages fail or time out and with or without a cached style guide.
C1_ReturnsFinalOrError ==
    /\ outcome # "raised"
    /\ (InPost /\ pc = "idle") => outcome = "returned"
    /\ PostReturned => ("final" \in DOMAIN returned \/ "error" \in DOMAIN returned)

\* a call with a cached style guide that ended on a timed-out stage
C1_Witness ==
    /\ PostReturned
    /\ cached_style_guide = <<"CACHED_STYLE">>
    /\ "error" \in DOMAIN returned
    /\ IsTimeoutText(returned["error"])

----------------------------------------------------------------------------
(* C2 *)

\* C2: if one of the stages style, research, draft, link-insertion, final-edit
\* or final-SEO raised, the returned mapping has "error" and has no "final";
\* and no returned mapping has both "error" and "final".
C2_AbortInvariant ==
    PostReturned =>
        /\ (RaisedStages \ {"seo_advisory"} # {}) =>
               ("error" \in DOMAIN returned /\ "final" \notin DOMAIN returned)
        /\ ~("error" \in DOMAIN returned /\ "final" \in DOMAIN returned)

----------------------------------------------------------------------------
(* C3 *)

\* C3: once the agent call of a stage other than SEO-advisory has raised, the
\* call has aborted: that stage's submission is the last one of the request
\* and the exception's message is what "error" holds.
C3_AbortsImmediately ==
    InPost =>
        \A i \in DOMAIN raised :
            raised[i].stage # "seo_advisory" =>
                /\ Submits[Len(Submits)] = StageOrder[StageIndex(raised[i].stage)]
                /\ outcome = "returned"
                /\ "error" \in DOMAIN returned
                /\ returned["error"] = raised[i].text

----------------------------------------------------------------------------
(* C4 *)

\* what a stage that completed leaves under its key: its agent's output; the
\* cached guide stands for the style stage when one was supplied, and the
\* absorbed failure text stands for the SEO-advisory stage when it raised
CompletedValue(i) ==
    IF i = 1 /\ Truthy(cached_style_guide) THEN cached_style_guide
    ELSE IF i = 4 /\ "seo_advisory" \in RaisedStages
         THEN <<"Initial SEO analysis failed: ">>
              \o (CHOOSE x \in {raised[j] : j \in DOMAIN raised} :
                      x.stage = "seo_advisory").text
         ELSE StubReply[StageOrder[i]]

\* C4: when create_blog_post aborts, the stage that failed is the one whose
\* exception is reported, and the returned mapping is exactly the outputs of
\* the stages before it, under their keys, plus "error" with the message.
C4_AbortKeepsCompletedOnly ==
    (PostReturned /\ "error" \in DOMAIN returned) =>
        LET failing == CHOOSE i \in DOMAIN raised :
                           /\ raised[i].stage # "seo_advisory"
                           /\ \A j \in 1..(i - 1) : raised[j].stage = "seo_advisory"
            k == StageIndex(raised[failing].stage)
        IN /\ returned["error"] = raised[failing].text
           /\ DOMAIN returned = {ResultKeys[i] : i \in 1..(k - 1)} \cup {"error"}
           /\ \A i \in 1..(k - 1) : returned[ResultKeys[i]] = CompletedValue(i)

----------------------------------------------------------------------------
(* C5 *)

\* C5: when no stage raises, the returned mapping has exactly the seven stage
\* keys and no "error"; each key holds the output of its own stage (style_guide
\* holds the cached guide when the style stage was skipped).
C5_SuccessMapping ==
    (PostReturned /\ raised = <<>>) =>
        /\ DOMAIN returned = {ResultKeys[i] : i \in 1..7}
        /\ \A i \in 1..7 :
               returned[ResultKeys[i]] =
                   IF i = 1 /\ cached_style_guide \notin {None, <<>>}
                   THEN cached_style_guide
                   ELSE StubReply[StageOrder[i]]

\* a call without cached guide in which all seven stages succeeded
C5_Witness ==
    /\ PostReturned
    /\ raised = <<>>
    /\ cached_style_guide = None
    /\ Len(Submits) = 7

----------------------------------------------------------------------------
(* C6 *)

IsPrefix(s, t) == Len(s) <= Len(t) /\ \A i \in DOMAIN s : s[i] = t[i]

NoCache == cached_style_guide \in {None, <<>>}

\* C6 as claimed: without a cached guide the submissions follow the fixed
\* order from style-analysis on (so style-analysis is invoked once, first),
\* and the agent calls run one at a time: the pool never holds two calls of the
\* request, so style-analysis is over when research begins.
C6_OneAtATime ==
    (InPost /\ NoCache) =>
        /\ Submits # <<>>
        /\ IsPrefix(Submits, StageOrder)
        /\ Cardinality(OwnTasks) <= 1

\* C6 amended: without a cached guide the submissions follow the fixed order
\* from style-analysis on; the caller waits for the latest submission only, and
\* every other call of the request still in the pool is one whose wait timed out.
C6_SubmittedInOrder ==
    (InPost /\ NoCache) =>
        /\ Submits # <<>>
        /\ IsPrefix(Submits, StageOrder)
        /\ \A t \in OwnTasks :
               IF t.id = future
               THEN t.prompt.name = Submits[Len(Submits)]
               ELSE \E i \in DOMAIN raised :
                        /\ StageOrder[StageIndex(raised[i].stage)] = t.prompt.name
                        /\ raised[i].text = TimeoutMessage(t.agent, t.timeout)

\* the style-analysis call timed out and is still running while the caller
\* waits for a later stage
C6_Witness ==
    /\ InPost /\ NoCache
    /\ outcome = "running"
    /\ \E t \in OwnTasks : t.prompt.name = "style_prompt" /\ t.st = "running" /\ t.id # future
    /\ \E t \in OwnTasks : t.id = future /\ t.prompt.name = "writing_prompt"

----------------------------------------------------------------------------
(* C7 *)

\* C7: with a non-empty cached style guide no style-analysis call is ever
\* submitted, and style_guide holds the supplied text in `results` throughout
\* and in the returned mapping, on success and on every abort.
C7_CacheBypass ==
    (InPost /\ cached_style_guide \notin {None, <<>>}) =>
        /\ \A i \in DOMAIN Submits : Submits[i] # "style_prompt"
        /\ \A t \in OwnTasks : t.prompt.name # "style_prompt"
        /\ "style_guide" \in DOMAIN results
        /\ results["style_guide"] = cached_style_guide
        /\ outcome = "returned" =>
               /\ "style_guide" \in DOMAIN returned
               /\ returned["style_guide"] = cached_style_guide

\* a call with a cached guide that aborted at the link-insertion stage
C7_Witness ==
    /\ PostReturned
    /\ cached_style_guide = <<"CACHED_STYLE">>
    /\ "error" \in DOMAIN returned
    /\ "draft" \in DOMAIN returned
    /\ "with_links" \notin DOMAIN returned

----------------------------------------------------------------------------
(* C8 *)

\* C8: when the SEO-advisory stage is the only one that raised, the three
\* later stages were still submitted, the returned mapping has "final" and
\* "with_links" and no "error", and "initial_seo_analysis" holds the text
\* "Initial SEO analysis failed: " followed by the exception's message.
C8_SoftFailure ==
    (PostReturned /\ RaisedStages = {"seo_advisory"}) =>
        /\ \A n \in {"linking_prompt", "editing_prompt", "final_seo_prompt"} :
               \E i \in DOMAIN Submits : Submits[i] = n
        /\ {"final", "with_links", "initial_seo_analysis"} \subseteq DOMAIN returned
        /\ "error" \notin DOMAIN returned
        /\ returned["initial_seo_analysis"] =
               <<"Initial SEO analysis failed: ">> \o raised[1].text

\* a completed call whose only failure was a timed-out SEO-advisory stage
C8_Witness ==
    /\ PostReturned
    /\ RaisedStages = {"seo_advisory"}
    /\ IsTimeoutText(raised[1].text)
    /\ "seo_analysis" \in DOMAIN returned

----------------------------------------------------------------------------
(* C9 *)

\* C9: within one call no stage submits a second agent call: the prompts
\* submitted by a create_blog_post call are pairwise different stages, and
\* generate_topic_ideas and extract_blog_topics submit at most one call each,
\* also after a failure or a timeout was raised; the pool holds no call of the
\* request beyond those submissions.
C9_NoRetry ==
    /\ \A i, j \in DOMAIN Submits : i # j => Submits[i] # Submits[j]
    /\ InPost => \A i \in DOMAIN Submits : \E k \in 1..7 : Submits[i] = StageOrder[k]
    /\ op \in {"generate_topic_ideas", "extract_blog_topics"} => Len(Submits) <= 1
    /\ Cardinality(OwnTasks) <= Len(Submits)

\* a pipeline call that went through all seven stages although style-analysis
\* timed out, SEO-advisory failed and final-SEO timed out
C9_Witness ==
    /\ PostReturned
    /\ Len(raised) = 3
    /\ raised[1] = [stage |-> "style",
                    text |-> TimeoutMessage(agents["style_analyzer"], DefaultTimeout)]
    /\ raised[2] = [stage |-> "seo_advisory", text |-> <<"boom">>]
    /\ raised[3] = [stage |-> "final_seo",
                    text |-> TimeoutMessage(agents["seo_analyzer"], DefaultTimeout)]
    /\ Submits = StageOrder

----------------------------------------------------------------------------
(* C10 *)

StrictlyIncreasing(s) == \A i, j \in DOMAIN s : i < j => s[i] < s[j]

\* with a callback, every submission is directly preceded by a callback invocation
NotifiedBeforeEachStage ==
    \A i \in DOMAIN trace :
        IsSubmit(trace[i]) => (i > 1 /\ IsProgress(trace[i - 1]))

\* C10 as claimed: with a callback supplied, a callback invocation precedes
\* each stage and the percentages received increase along the whole call, on
\* every path.
C10_Monotonic ==
    (InPost /\ status_callback) =>
        /\ NotifiedBeforeEachStage
        /\ StrictlyIncreasing(Percents)

\* C10 amended: with a callback supplied, a callback invocation precedes each
\* stage and the percentages increase strictly, except that an abort ends the
\* sequence with one report of 0%; a call that has not aborted reports no 0%.
C10_MonotonicUntilAbort ==
    (InPost /\ status_callback) =>
        /\ NotifiedBeforeEachStage
        /\ IF outcome = "returned" /\ "error" \in DOMAIN returned
           THEN /\ Percents # <<>>
                /\ Percents[Len(Percents)] = 0
                /\ trace[Len(trace)].what = <<"Error: ">> \o returned["error"]
                /\ StrictlyIncreasing(SubSeq(Percents, 1, Len(Percents) - 1))
           ELSE StrictlyIncreasing(Percents) /\ \A i \in DOMAIN Percents : Percents[i] > 0

\* a call with callback and fresh style analysis that absorbed an SEO-advisory
\* failure and then aborted at final-edit
C10_Witness ==
    /\ PostReturned
    /\ status_callback
    /\ NoCache
    /\ RaisedStages = {"seo_advisory", "final_edit"}
    /\ Percents = <<10, 15, 25, 45, 60, 65, 75, 85, 0>>

----------------------------------------------------------------------------
(* C11 *)

\* the message the stage raised with in this call
RaisedText(stage) ==
    (CHOOSE x \in {raised[j] : j \in DOMAIN raised} : x.stage = stage).text

\* what the stage leaves under its key, given the cached guide and the stage
\* outcomes alone
StoredValue(i) ==
    IF i = 1 /\ cached_style_guide \notin {None, <<>>} THEN cached_style_guide
    ELSE IF i = 1 /\ "style" \in RaisedStages
         THEN <<"Style analysis failed: ">> \o RaisedText("style")
    ELSE IF i = 4 /\ "seo_advisory" \in RaisedStages
         THEN <<"Initial SEO analysis failed: ">> \o RaisedText("seo_advisory")
    ELSE StubReply[StageOrder[i]]

\* the stages whose failure ends the call
AbortingStages == RaisedStages \ {"style", "seo_advisory"}

\* the last stage the call has reached, given the stage outcomes alone
LastStage ==
    IF AbortingStages # {} THEN StageIndex(CHOOSE s \in AbortingStages : TRUE)
    ELSE IF pc = "idle" THEN 7 ELSE StageIndex(pc)

\* the number of stages whose value is stored
StagesStored ==
    IF AbortingStages # {} \/ pc # "idle" THEN LastStage - 1 ELSE 7

\* C11: the status callback is advisory only. Whether or not a callback was
\* supplied, the agent calls a create_blog_post call submits and the mapping it
\* builds and returns are one function of the cached style guide and of the
\* outcomes of the stages; the callback's presence is no argument of it.
C11_CallbackAdvisory ==
    InPost =>
        /\ Submits = SubSeq(StageOrder,
                            IF cached_style_guide \notin {None, <<>>} THEN 2 ELSE 1,
                            LastStage)
        /\ DOMAIN results = {ResultKeys[i] : i \in 1..StagesStored}
                            \cup (IF AbortingStages # {} THEN {"error"} ELSE {})
        /\ \A i \in 1..StagesStored : results[ResultKeys[i]] = StoredValue(i)
        /\ AbortingStages # {} =>
               results["error"] = RaisedText(CHOOSE s \in AbortingStages : TRUE)
        /\ outcome = "returned" => returned = results

\* two finished calls are told apart by the callback alone: this one had no
\* callback, made no report, and went through a failed style analysis and a
\* failed SEO-advisory stage to the end
C11_Witness ==
    /\ PostReturned
    /\ ~status_callback
    /\ Percents = <<>>
    /\ RaisedStages = {"style", "seo_advisory"}
    /\ Submits = StageOrder
    /\ "seo_analysis" \in DOMAIN returned

----------------------------------------------------------------------------
(* C12 *)

\* the agent each stage calls, in pipeline order
StageAgentKeys ==
    <<"style_analyzer", "researcher", "writer", "seo_analyzer", "internal_linker",
      "editor", "seo_analyzer">>

\* the TimeoutError text of a stage: 300 s in the pipeline, 600 s in topic ideation
StageTimeoutText(stage) ==
    IF stage = "topics" THEN TimeoutMessage(agents["topic_generator"], TopicTimeout)
    ELSE TimeoutMessage(agents[StageAgentKeys[StageIndex(stage)]], DefaultTimeout)

TimedOut(i) == raised[i].text = StageTimeoutText(raised[i].stage)

\* C12: a call that outlasts its ceiling is abandoned with an error that names
\* the agent and the ceiling (300 s in the pipeline, 600 s in topic ideation),
\* and the pipeline treats the timeout of a stage as it treats any failure:
\* the call has aborted at that stage and "error" holds the timeout's text.
C12_TimeoutAborts ==
    /\ \A i \in DOMAIN raised :
           raised[i].stage # "parse" =>
               raised[i].text \in ErrorMessages \cup {StageTimeoutText(raised[i].stage)}
    /\ InPost =>
           \A i \in DOMAIN raised :
               (TimedOut(i) /\ raised[i].stage # "seo_advisory") =>
                   /\ outcome = "returned"
                   /\ Submits[Len(Submits)] = StageOrder[StageIndex(raised[i].stage)]
                   /\ "error" \in DOMAIN returned
                   /\ returned["error"] = raised[i].text

----------------------------------------------------------------------------
(* C13 *)

\* C13 as claimed: every error _run_agent_safely hands to its caller is tagged
\* with the name of the agent that was called.
C13_ErrorNamesAgent ==
    \A i \in DOMAIN raised :
        \E k \in DOMAIN raised[i].text :
            raised[i].text[k] \in {agents[a] : a \in DOMAIN agents}

\* C13 amended: when the caller stops waiting for a call whose worker has
\* finished, it gets the worker's result, or the worker's exception re-raised
\* with its own message, unchanged; the exception is never dropped. (The
\* agent's name is in the printed log line and in the timeout error only.)
C13_ReraisedUnchanged ==
    [][\A t \in pool :
          (t.id = future /\ t.st = "done" /\ future' # future) =>
              IF t.data.success
              THEN /\ \A i \in DOMAIN raised' : raised'[i].stage = pc => i \in DOMAIN raised
                   /\ InPost => \E k \in DOMAIN results' : results'[k] = t.data.text
              ELSE /\ raised' = Append(raised, [stage |-> pc, text |-> t.data.text])
                   /\ t.data.text \in ErrorMessages]_vars

\* the writer's exception reached create_blog_post with its own message
C13_Witness ==
    /\ PostReturned
    /\ raised # <<>>
    /\ raised[Len(raised)] = [stage |-> "draft", text |-> <<"boom">>]
    /\ returned["error"] = <<"boom">>

----------------------------------------------------------------------------
(* C16 *)

InTopics == op = "generate_topic_ideas"

\* C16: generate_topic_ideas never raises; when its agent call failed or timed
\* out, or the parser raised, it has returned the empty list, and a supplied
\* callback has received, last, the exception's text with 0%.
C16_TopicFailureReturnsEmpty ==
    InTopics =>
        /\ outcome # "raised"
        /\ pc = "idle" => outcome = "returned"
        /\ raised # <<>> =>
               /\ outcome = "returned"
               /\ topics = <<>>
               /\ status_callback =>
                      trace[Len(trace)] =
                          Progress(<<"Error: ">> \o raised[Len(raised)].text, 0)

\* the parser raised after the 100% report: the callback got 50, 100, then 0
C16_Witness ==
    /\ InTopics
    /\ outcome = "returned"
    /\ status_callback
    /\ Len(raised) = 1
    /\ raised[1].stage = "parse"
    /\ Percents = <<50, 100, 0>>
    /\ topics = <<>>

----------------------------------------------------------------------------
(* C19 *)

\* the rendered duplication context of the call the caller is waiting for
RenderedContext == (CHOOSE t \in pool : t.id = future).prompt.embeds[1]

IsBullet(line) == line # <<>> /\ Head(line) = "- "

IsNote(line) == line # <<>> /\ Head(line) = "(and "

\* the titles the rendered context lists, in order
ListedTitles ==
    LET bullets == SelectSeq(split(RenderedContext, "\n"), IsBullet)
    IN [i \in DOMAIN bullets |-> bullets[i][2]]

\* the truncation notes of the rendered context
Notes == SelectSeq(split(RenderedContext, "\n"), IsNote)

\* C19: for an existing_topics list of length n the rendered prompt lists
\* exactly the first min(n, 50) titles, in order; for n > 50 it carries one
\* truncation note citing n - 50, and for n <= 50 it carries none.
C19_FirstFiftyListed ==
    (InTopics /\ pc = "topics" /\ existing_topics # None) =>
        LET n == Len(existing_topics) IN
        /\ ListedTitles = SubSeq(existing_topics, 1, IF n < 50 THEN n ELSE 50)
        /\ n > 50 => Notes = << <<"(and ", ToString(n - 50), " more...)">> >>
        /\ n <= 50 => Notes = <<>>

\* a list of 52 titles: 50 are listed and the note cites 2
C19_Witness ==
    /\ InTopics /\ pc = "topics"
    /\ existing_topics # None
    /\ Len(existing_topics) = 52
    /\ Len(ListedTitles) = 50
    /\ ListedTitles[50] = existing_topics[50]
    /\ Notes = << <<"(and ", "2", " more...)">> >>

----------------------------------------------------------------------------
(* C20 *)

\* C20: a call of extract_blog_topics has invoked the research agent: when it
\* returns, one agent call was submitted for it, and unless that call failed
\* the list returned holds the kept lines of the agent's output.
C20_ExtractInvokesAgent ==
    (op = "extract_blog_topics" /\ outcome = "returned") =>
        /\ Len(Submits) = 1
        /\ raised = <<>> => topics # <<>>

----------------------------------------------------------------------------
(* C17 *)

\* the record block k of a well-formed text with n keywords must yield
ExpectedRecord(k, n) ==
    [set |-> TRUE,
     title |-> <<"Title " \o ToString(k)>>,
     angle |-> <<"angle " \o ToString(k)>>,
     keywords |-> [i \in 1..n |-> <<IF i = 1 THEN "kw" \o ToString(k)
                                    ELSE "kw" \o ToString(k) \o ToString(i)>>],
     rationale |-> <<"why " \o ToString(k)>>,
     content_type |-> <<"Guide">>]

\* C17: from a text of exactly five correctly labelled topic blocks the parser
\* yields exactly five records, in the order of the blocks, each with its
\* block's title and all four sub-fields populated from its block; a second
\* parse of the same text yields the same records.
C17_FiveBlocksFiveRecords ==
    \A h \in HeadingPrefixes, b \in Bullets, n \in 1..3, gap \in BOOLEAN :
        raw_output = WellFormedText(h, b, n, gap) =>
            \A i \in DOMAIN parsed :
                /\ Len(parsed[i]) = 5
                /\ \A k \in 1..5 :
                       /\ parsed[i][k] = ExpectedRecord(k, n)
                       /\ parsed[i][k].angle # <<>>
                       /\ parsed[i][k].keywords # <<>>
                       /\ parsed[i][k].rationale # <<>>
                       /\ parsed[i][k].content_type # <<>>
                /\ parsed[i] = parsed[1]

\* a five-block text without hashes and bullets, with blank lines between the
\* blocks, parsed twice
C17_Witness ==
    /\ raw_output = WellFormedText(<<>>, <<>>, 3, TRUE)
    /\ Len(parsed) = 2
    /\ Len(parsed[2]) = 5
    /\ parsed[2][5].title = <<"Title 5">>
    /\ Len(parsed[2][5].keywords) = 3

----------------------------------------------------------------------------
(* C18 *)

\* the lines of the parser's input
InputLines == split(raw_output, "\n")

\* the input is one of the free-form texts and none of its lines is a numbered heading
NoHeading == raw_output \in ShortInputs /\ \A i \in DOMAIN InputLines : InputLines[i] \notin HeadingLines

\* the input's only numbered heading is its last line
HeadingLast ==
    /\ raw_output \in ShortInputs
    /\ InputLines[Len(InputLines)] \in HeadingLines
    /\ \A i \in 1..(Len(InputLines) - 1) : InputLines[i] \notin HeadingLines

\* C18: the parser returns on every text; from a text without numbered heading
\* it yields zero records, and labelled field lines that come before the first
\* heading neither create nor populate a record: when the only heading is the
\* last line, the one record has its title and four empty sub-fields.
C18_NoHeadingNoRecord ==
    /\ NoHeading => \A i \in DOMAIN parsed : parsed[i] = <<>>
    /\ HeadingLast =>
           \A i \in DOMAIN parsed :
               /\ Len(parsed[i]) = 1
               /\ parsed[i][1].title \in {<<"Title A">>, <<"Title B">>}
               /\ parsed[i][1].angle = <<>>
               /\ parsed[i][1].keywords = <<>>
               /\ parsed[i][1].rationale = <<>>
               /\ parsed[i][1].content_type = <<>>

\* labelled field lines, then the heading: parsed into one record without fields
C18_Witness ==
    /\ InputLines = << <<"-", " ", "**Angle**:", " ", "angle X">>,
                       <<"**Keywords**:", " ", "kwX", ",", " ", "kwY">>,
                       <<"#", "#", " ", "1.", " ", "Title A">> >>
    /\ Len(parsed) = 1
    /\ Len(parsed[1]) = 1
    /\ parsed[1][1].angle = <<>>

----------------------------------------------------------------------------
(* C14 *)

\* the number of _run_agent_safely calls the callers 1..c have made
RECURSIVE ShimCalls(_)
ShimCalls(c) == IF c = 0 THEN 0 ELSE callers[c].stages + ShimCalls(c - 1)

\* calls the pool still holds although their caller gave up waiting
Abandoned == {t \in Unfinished : ~Awaited(t.id)}

\* C14: all requests on one orchestrator share its one pool: at most 4 agent
\* calls are executing on it at any time, however the concurrent requests
\* interleave and however many calls were abandoned; every _run_agent_safely
\* call of a stage has put exactly one call into it, and a caller waits for
\* a call of its own that the pool holds.
C14_AtMostFourRunning ==
    /\ Cardinality(Running) <= 4
    /\ nextId - 1 = ShimCalls(NCallers)
    /\ \A t1, t2 \in pool : t1.id = t2.id => t1 = t2
    /\ \A c \in Callers :
           /\ Cardinality({t \in pool : t.call = c}) <= callers[c].stages
           /\ callers[c].pc = "waiting" =>
                  \E t \in pool : t.id = callers[c].future /\ t.call = c
           /\ callers[c].pc = "side" => callers[c].stages = 0

\* four calls are executing, three of them abandoned, and a fifth waits in
\* the queue
C14_Witness ==
    /\ Cardinality(Running) = 4
    /\ Queued # {}
    /\ Cardinality(Abandoned \cap Running) >= 3

----------------------------------------------------------------------------
(* C15 *)

\* C15: the pool is shut down only by the orchestrator's destruction, after
\* every request has ended, and the shutdown does not return before every
\* call in flight, abandoned ones included, has finished.
C15_TeardownDrains ==
    /\ executor # "open" => \A c \in Callers : callers[c].pc = "done"
    /\ executor = "shut down" => Unfinished = {}

\* the destructor is blocked in shutdown while an abandoned call is running
\* and another is still queued behind it
C15_Witness ==
    /\ executor = "shutdown(wait=True)"
    /\ Abandoned \cap Running # {}
    /\ Abandoned \cap Queued # {}

----------------------------------------------------------------------------
(* C21 *)

\* the stop flag apart, the step leaves the session state as it is
OnlyFlagChanges ==
    UNCHANGED <<autopilot_active, autopilot_needs_topics, autopilot_total_posts,
                autopilot_completed_posts, autopilot_current_topic,
                autopilot_topics_queue, autopilot_results, autopilot_errors,
                autopilot_cached_style, generated_topics, script, frame, post_calls,
                sheets_manager, st_error, style_row, sheet_writes>>

----------------------------------------------------------------------------
(* C22 *)

----------------------------------------------------------------------------
(* C23 *)

\* the prompt of the agent call the request is blocked on
CurrentPrompt == (CHOOSE t \in pool : t.id = future).prompt

\* the style guide the stages of the current call work with
StyleText ==
    IF Truthy(cached_style_guide) THEN cached_style_guide
    ELSE IF "style" \in RaisedStages
         THEN <<"Style analysis failed: ">> \o RaisedText("style")
         ELSE StubReply.style_prompt

\* the SEO advisory text of the current call: the advisor's reply, or the
\* placeholder stored when the advisory stage failed
AdvisoryText ==
    IF "seo_advisory" \in RaisedStages
    THEN <<"Initial SEO analysis failed: ">> \o RaisedText("seo_advisory")
    ELSE StubReply.initial_seo_prompt

\* C23: the prompt of each stage holds the text the stages it depends on
\* produced. The draft prompt holds the style guide and the researcher's
\* reply, the link prompt the writer's reply and the SEO advisory text, the
\* final-edit prompt the style guide, the linker's reply and the SEO advisory
\* text, the final-SEO prompt the editor's reply. When the SEO advisory stage
\* failed, the advisory text is the placeholder stored under
\* initial_seo_analysis.
C23_PromptsEmbedOutputs ==
    (InPost /\ outcome = "running" /\ future # 0) =>
        /\ pc = "draft" =>
              CurrentPrompt = Prompt("writing_prompt",
                                     <<StyleText, StubReply.research_prompt>>)
        /\ pc = "link" =>
              /\ CurrentPrompt = Prompt("linking_prompt",
                                        <<StubReply.writing_prompt, AdvisoryText>>)
              /\ results["initial_seo_analysis"] = AdvisoryText
        /\ pc = "final_edit" =>
              CurrentPrompt = Prompt("editing_prompt",
                                     <<StyleText, StubReply.linking_prompt, AdvisoryText>>)
        /\ pc = "final_seo" =>
              /\ CurrentPrompt.name = "final_seo_prompt"
              /\ CurrentPrompt.embeds[1] = StubReply.editing_prompt

\* the final-edit stage of a call whose SEO advisory stage failed and whose
\* style analysis ran
C23_Witness ==
    /\ InPost /\ outcome = "running"
    /\ pc = "final_edit"
    /\ "seo_advisory" \in RaisedStages
    /\ ~Truthy(cached_style_guide)
    /\ CurrentPrompt.embeds[3] = <<"Initial SEO analysis failed: ", "boom">>

----------------------------------------------------------------------------
(* C24 *)

\* C24: when the temporary_env_var blocks of two requests of one process
\* interleave, every agent call of a request reads that request's own key
\* from OPENAI_API_KEY, and once both blocks are left the variable has the
\* value, or the absence, it had before either was entered.
C24_KeysIsolated ==
    /\ \A r \in Requests :
          \A i \in DOMAIN requests[r].observed : requests[r].observed[i] = api_key(r)
    /\ (\A r \in Requests : requests[r].pc = "exited") => environ = env_before

----------------------------------------------------------------------------
(* C25 *)

\* the calls of the run that were given no usable cached style guide, and so
\* ran the style analysis
Analysed == {i \in DOMAIN post_calls : ~Truthy(post_calls[i].cached_style_guide)}

----------------------------------------------------------------------------
(* C26 *)

\* the outcome records of failed topics
Failures == {i \in DOMAIN autopilot_results : ~autopilot_results[i].success}

----------------------------------------------------------------------------
(* C27 *)

\* the latest create_blog_post call of the log
LastCall == post_calls[Len(post_calls)]

----------------------------------------------------------------------------
(* C28 *)

\* the text is the one analyze_blog_style returns for a failed analysis
IsStyleFailure(text) == text # <<>> /\ Head(text) = "Style analysis failed: "

----------------------------------------------------------------------------
(* C29 *)

----------------------------------------------------------------------------
(* C30 *)

\* C30: after any sequence of save_style_guide and set_current_brand calls
\* on one SheetsManager the sheet has at most one row per (domain, brand)
\* pair, compared without regard to case, and get_cached_style_guide(domain)
\* called right after save_style_guide(domain, text) under the same brand
\* context returns that text as style_guide.
C30_UpsertRoundTrip ==
    /\ \A i, j \in DOMAIN Style_Guides :
          (/\ lower(Style_Guides[i].Domain) = lower(Style_Guides[j].Domain)
           /\ lower(Style_Guides[i].Brand) = lower(Style_Guides[j].Brand)) => i = j
    /\ (last_call.fn = "get_cached_style_guide" /\ last_call.after_save) =>
          last_call.text = last_call.saved

====
